---- MODULE Spec2Model ----
(***************************************************************************)
(* Model of DupuitLEM's hydrological models                                *)
(* (DupuitLEM/auxiliary_models/hydrological_models.py) and of the steady   *)
(* recharge landscape evolution model                                      *)
(* (DupuitLEM/models/steady_shear_stress_model.py).                        *)
(*                                                                         *)
(* Floating point values are modelled as exact rationals <<n, d>> in       *)
(* lowest terms with d > 0; the numpy arrays are functions over the nodes. *)
(* Durations are integers counted in units of 5e-16 s, so that the code's  *)
(* floor of 1e-15 s is the integer EPS.                                    *)
(***************************************************************************)
EXTENDS Integers, Sequences, FiniteSets, TLC

\* ------------------------------------------------------------------ bounds
\* Length of the arrays handed to calc_storm_eff_shear_stress.
NumAggNodes == 1
\* Largest shear stress snapshot value drawn for the aggregator.
MaxTau == 3
\* Largest threshold drawn for the aggregator.
MaxTauc == 2

\* Nodes of the grid.
NumNodes == 1
\* Calls of a step operation on one model object.
MaxSteps == 2
\* Longest forcing sequence the precipitation generator yields.
MaxEvents == 2
\* Largest discharge the flow accumulator reports at a node.
MaxQ == 1
\* Largest value the shear stress function reports at a node.
MaxShear == 2
\* Largest sub-step count the groundwater solver reports.
MaxSubsteps == 2
\* Largest pit count the depression finder reports.
MaxPits == 1
\* Largest storm intensity the precipitation generator draws.
MaxIntensity == 1

\* Largest total_time, morphologic_scaling_factor, hydrological_timestep and
\* output_interval handed to SteadyRechargeShearStress.
MaxTotalTime == 4
MaxMSF == 2
MaxTimestep == 2
MaxInterval == 2
\* Largest regolith production, and largest erosion rate, of one iteration.
MaxProduction == 1
MaxErosion == 2

\* self.T_h = self.pd._run_time: the horizon, in units of 5e-16 s.
T_h == 3
\* The floor 1e-15 of max(interstorm_dt, 1e-15), in units of 5e-16 s.
EPS == 2

AggNodes == 1..NumAggNodes
Nodes == 1..NumNodes
TauValues == 0..MaxTau
TaucValues == 0..MaxTauc
\* (tr, tb) pairs handed to the aggregator; tr + tb > 0 in each.
DurationPairs == {<<100, 900>>, <<1, 0>>, <<1, 2>>, <<0, 2>>, <<2, 1>>}

\* --------------------------------------------------------------- rationals
Abs(x) == IF x < 0 THEN -x ELSE x

RECURSIVE GCD(_, _)
GCD(a, b) == IF b = 0 THEN a ELSE GCD(b, a % b)

\* The rational n/d (d # 0) in lowest terms with a positive denominator.
Rat(n, d) ==
    LET s == IF d < 0 THEN -1 ELSE 1
        g == GCD(Abs(n), Abs(d))
    IN  <<(s * n) \div g, (s * d) \div g>>

Num(n) == <<n, 1>>
Zero == Num(0)
RAdd(x, y) == Rat(x[1] * y[2] + y[1] * x[2], x[2] * y[2])
RSub(x, y) == Rat(x[1] * y[2] - y[1] * x[2], x[2] * y[2])
RMul(x, y) == Rat(x[1] * y[1], x[2] * y[2])
\* x / y for y # 0.
RDiv(x, y) == Rat(x[1] * y[2], x[2] * y[1])
RLt(x, y) == x[1] * y[2] < y[1] * x[2]
RGt(x, y) == RLt(y, x)
RLe(x, y) == ~RLt(y, x)
Half == Rat(1, 2)
RMax(x, y) == IF RLt(x, y) THEN y ELSE x

\* -------------------------------------------------- the temporal aggregator
\* Integral above tauc over the event (tau0 -> tau1 during tr) at one node:
\* the masks c1, c2, c3 and the implied fourth case that leaves the zero of
\* np.zeros_like.
\* tauint1 with the both-above case integrating the raw values, not the excess.
tauint1_raw_trapezoid(tau0, tau1, tauc, tr) ==
    IF RGt(tau0, tauc) /\ RGt(tau1, tauc)
    THEN RMul(RMul(Half, Num(tr)), RAdd(tau0, tau1))
    ELSE IF RLt(tau0, tauc) /\ RGt(tau1, tauc)
    THEN RMul(RMul(RMul(Half, Num(tr)), RSub(tau1, tauc)),
              RDiv(RSub(tau1, tauc), RSub(tau1, tau0)))
    ELSE IF RGt(tau0, tauc) /\ RLt(tau1, tauc)
    THEN RMul(RMul(RMul(Half, Num(tr)), RSub(tau0, tauc)),
              RDiv(RSub(tau0, tauc), RSub(tau0, tau1)))
    ELSE Zero

tauint1(tau0, tau1, tauc, tr) ==
    IF RGt(tau0, tauc) /\ RGt(tau1, tauc)
    THEN RMul(RMul(Half, Num(tr)),
              RSub(RAdd(tau0, tau1), RMul(Num(2), tauc)))
    ELSE IF RLt(tau0, tauc) /\ RGt(tau1, tauc)
    THEN RMul(RMul(RMul(Half, Num(tr)), RSub(tau1, tauc)),
              RDiv(RSub(tau1, tauc), RSub(tau1, tau0)))
    ELSE IF RGt(tau0, tauc) /\ RLt(tau1, tauc)
    THEN RMul(RMul(RMul(Half, Num(tr)), RSub(tau0, tauc)),
              RDiv(RSub(tau0, tauc), RSub(tau0, tau1)))
    ELSE Zero

\* tauint2 with the falling case's crossing ratio inverted.
tauint2_inverted_ratio(tau1, tau2, tauc, tb) ==
    IF RGt(tau1, tauc) /\ RGt(tau2, tauc)
    THEN RMul(RMul(Half, Num(tb)),
              RSub(RAdd(tau1, tau2), RMul(Num(2), tauc)))
    ELSE IF RLt(tau1, tauc) /\ RGt(tau2, tauc)
    THEN RMul(RMul(RMul(Half, Num(tb)), RSub(tau2, tauc)),
              RDiv(RSub(tau2, tauc), RSub(tau2, tau1)))
    ELSE IF RGt(tau1, tauc) /\ RLt(tau2, tauc)
    THEN RMul(RMul(RMul(Half, Num(tb)), RSub(tau1, tauc)),
              RDiv(RSub(tau1, tau2), RSub(tau1, tauc)))
    ELSE Zero

\* Integral above tauc over the interevent (tau1 -> tau2 during tb).
tauint2(tau1, tau2, tauc, tb) ==
    IF RGt(tau1, tauc) /\ RGt(tau2, tauc)
    THEN RMul(RMul(Half, Num(tb)),
              RSub(RAdd(tau1, tau2), RMul(Num(2), tauc)))
    ELSE IF RLt(tau1, tauc) /\ RGt(tau2, tauc)
    THEN RMul(RMul(RMul(Half, Num(tb)), RSub(tau2, tauc)),
              RDiv(RSub(tau2, tauc), RSub(tau2, tau1)))
    ELSE IF RGt(tau1, tauc) /\ RLt(tau2, tauc)
    THEN RMul(RMul(RMul(Half, Num(tb)), RSub(tau1, tauc)),
              RDiv(RSub(tau1, tauc), RSub(tau1, tau2)))
    ELSE Zero

\* (variant of taueff_of) the mean excess alone, the threshold not added back.
taueff_of_mean_excess(i1, i2, tauc, tr, tb) ==
    RDiv(RAdd(i1, i2), Num(tr + tb))

\* taueff = (tauint1 + tauint2) / (tr + tb) + tauc, given the two integrals.
taueff_of(i1, i2, tauc, tr, tb) ==
    RAdd(RDiv(RAdd(i1, i2), Num(tr + tb)), tauc)

\* The whole function, element-wise over arrays of the same nodes.
calc_storm_eff_shear_stress(tau0, tau1, tau2, tauc, tr, tb) ==
    [n \in DOMAIN tau0 |->
        taueff_of(tauint1(tau0[n], tau1[n], tauc, tr),
                  tauint2(tau1[n], tau2[n], tauc, tb), tauc, tr, tb)]

ZeroAgg == [n \in AggNodes |-> Zero]

\* ------------------------------------------------------- the model objects
IntegrateShearStress == "HydrologyIntegrateShearStress"
EventShearStress == "HydrologyEventShearStress"
EventStreamPower == "HydrologyEventStreamPower"
EventThresholdStreamPower == "HydrologyEventThresholdStreamPower"
EventVadoseStreamPower == "HydrologyEventVadoseStreamPower"

SteadyShearStress == "HydrologySteadyShearStress"
SteadyStreamPower == "HydrologySteadyStreamPower"

ShearVariants == {IntegrateShearStress, EventShearStress}
StreamVariants == {EventStreamPower, EventThresholdStreamPower,
                   EventVadoseStreamPower}
Variants == ShearVariants \cup StreamVariants
\* The classes that advance the solver once per step, and all the classes.
SteadyVariants == {SteadyShearStress, SteadyStreamPower}
AllVariants == Variants \cup SteadyVariants

\* What a caller may pass as routing_method.
RoutingMethods == {"D8", "Steepest", "D4", "MFD"}

\* (variant of ValidRouting) every routing_method accepted.
ValidRouting_any(method) == TRUE

\* routing_method == "D8" or routing_method == "Steepest"
ValidRouting(method) == method \in {"D8", "Steepest"}

\* The flow director HydrologicalModel.__init__ creates.
FlowDirector(method) ==
    IF method = "D8" THEN "FlowDirectorD8" ELSE "FlowDirectorSteepest"

\* The collaborators HydrologicalModel.__init__ creates after the director.
BaseComponents ==
    {"FlowAccumulator", "LakeMapperBarnes", "DepressionFinderAndRouter"}

\* The named fields the __init__ of class v adds to the grid (add_zeros), in
\* the order it adds them.
FieldsOf(v) ==
    IF v \in {IntegrateShearStress, EventShearStress, SteadyShearStress}
        THEN <<"surface_water__shear_stress">>
    ELSE IF v = SteadyStreamPower
        THEN <<"surface_water_area_norm__discharge">>
    ELSE <<"surface_water_effective__discharge",
           "surface_water_area_norm__discharge">>
         \o (IF v = EventThresholdStreamPower
             THEN <<"critical_erosion__discharge">>
             ELSE IF v = EventVadoseStreamPower THEN <<"recharge_rate">>
             ELSE <<>>)

\* The elements of a sequence.
Range(seq) == {seq[k] : k \in DOMAIN seq}

\* The step operations each class defines.
Ops(v) == IF v \in {IntegrateShearStress} \cup SteadyVariants
          THEN {"run_step"}
          ELSE {"run_step", "run_step_record_state"}

\* What the precipitation generator may yield in one yield_storms(): triples
\* (storm_dt > 0, interstorm_dt >= 0, intensity) that cover the horizon.
ForcingTriples ==
    [storm_dt : 1..T_h, interstorm_dt : 0..T_h, intensity : 1..MaxIntensity]

RECURSIVE SumDurations(_)
SumDurations(seq) ==
    IF seq = <<>> THEN 0
    ELSE seq[1].storm_dt + seq[1].interstorm_dt + SumDurations(Tail(seq))

\* The sequences of up to MaxEvents of the triples that cover the horizon.
SequencesOf(triples) ==
    {seq \in UNION {[1..n -> triples] : n \in 1..MaxEvents} :
        SumDurations(seq) = T_h}

ForcingSequences == SequencesOf(ForcingTriples)

\* The same with one more intensity, so that storms of one sequence differ.
VariedTriples ==
    [storm_dt : 1..T_h, interstorm_dt : 0..T_h,
     intensity : 1..(MaxIntensity + 1)]

ZeroN == [n \in Nodes |-> Zero]

\* erosion_rate_function, the injected callable, as a function of the shear
\* stress field it reads from the grid: a rate that ignores the field, or one
\* proportional to it.
calc_erosion_from_shear_stress(fn, tau_field) ==
    [n \in Nodes |-> IF fn = "constant" THEN Num(-1)
                     ELSE RSub(Zero, tau_field[n])]

\* np.sqrt on the areas the grid holds (perfect squares).
Sqrt(a) == CHOOSE r \in 0..a : r * r = a

\* (variant of divide_where) the masked-out entries keep the numerator.
divide_where_keeps_numerator(x, y, mask) ==
    [n \in Nodes |-> IF mask[n] THEN RDiv(x[n], y[n]) ELSE x[n]]

\* np.divide(x, y, where=mask, out=zeros): the quotient where the mask holds,
\* the zero of `out` elsewhere.
divide_where(x, y, mask) ==
    [n \in Nodes |-> IF mask[n] THEN RDiv(x[n], y[n]) ELSE Zero]

\* q_an = q_eff / sqrt(area) where area > 0.
area_norm(q, a) ==
    divide_where(q, [n \in Nodes |-> Num(Sqrt(a[n]))], [n \in Nodes |-> a[n] > 0])

\* (variant of critical_discharge) E0 left out of the numerator.
critical_discharge_without_E0(e0, ksp, a, slope) ==
    divide_where([n \in Nodes |-> Num(Sqrt(a[n]))],
                 [n \in Nodes |-> Num(ksp * slope[n])],
                 [n \in Nodes |-> slope[n] > 0])

\* (variant of critical_discharge) the slope left out of the divisor.
critical_discharge_without_slope(e0, ksp, a, slope) ==
    divide_where([n \in Nodes |-> Num(e0 * Sqrt(a[n]))],
                 [n \in Nodes |-> Num(ksp)],
                 [n \in Nodes |-> slope[n] > 0])

\* Q0 = E0 * sqrt(area) / (Ksp * S) where S > 0.
critical_discharge(e0, ksp, a, slope) ==
    divide_where([n \in Nodes |-> Num(e0 * Sqrt(a[n]))],
                 [n \in Nodes |-> Num(ksp * slope[n])],
                 [n \in Nodes |-> slope[n] > 0])

\* np.digitize(x, bins, right=True) for increasing bins: the number of bins
\* strictly below x, i.e. the i with bins[i-1] < x <= bins[i] (0-based).
digitize_right(x, bins) == Cardinality({j \in DOMAIN bins : bins[j] < x})

\* (variant of wt_digitized) an index equal to len(depths) wraps to the first.
wt_digitized_wraps(x, bins) ==
    LET k == digitize_right(x, bins)
    IN  IF k = Len(bins) THEN 0 ELSE k

\* The index into the vadose profile: digitize, then the clamp of an index
\* equal to len(depths) to the last one.
wt_digitized(x, bins) ==
    LET k == digitize_right(x, bins)
    IN  IF k = Len(bins) THEN Len(bins) - 1 ELSE k

\* self.svm.depths and what self.svm.recharge_at_depth may hold after
\* run_event(depth of rainfall P): the vadose model's tables.
svm_depths == <<0, 1>>
\* (as functions of P).
VadoseProfiles ==
    {[P \in 0..(2 * T_h) |-> <<P, 0>>], [P \in 0..(2 * T_h) |-> <<P, P>>]}
\* elev - wt at a node after the groundwater solver has run.
DepthValues == {-1, 0, 1, 2}

VARIABLES
    a_pc, a_tau0, a_tau1, a_tau2, a_tauc, a_tr, a_tb,
    a_tauint1, a_tauint2, a_taueff,
    c_pc,           \* the position of __init__
    routing_method, \* the routing_method passed to __init__
    components,     \* the collaborators __init__ has created
    fields,         \* the named fields __init__ has added to the grid
    variant,        \* the class of the model object
    erosion_fn,     \* the injected erosion_rate_function
    tauc,           \* self._tauc
    E0,             \* self.E0
    Ksp,            \* self.Ksp
    area,           \* grid field drainage_area
    S,              \* |dzdx| along the flow direction
    cores,          \* self._grid.core_nodes
    attrs,          \* attributes of the object that exist: storm_dts, _wt
    op,             \* the step operation that is running
    pc,             \* its position
    step_no,        \* step operations called so far
    raised,         \* the exception the last step operation ended with
    forcing,        \* self.storm_dts, self.interstorm_dts, self.intensities
    storms,         \* the generator being iterated by `for ... in yield_storms()`
    i,              \* the loop's index
    recharge,       \* self.gdp.recharge
    number_of_substeps,       \* self.gdp.number_of_substeps
    max_substeps_storm,
    max_substeps_interstorm,
    wt_depth,       \* elev - wt, the water table the solver wrote
    recharge_at_depth,        \* self.svm.recharge_at_depth
    r,              \* self.r, grid field recharge_rate
    q,              \* grid field surface_water__discharge
    tau,            \* self._tau, grid field surface_water__shear_stress
    Q0,             \* grid field critical_erosion__discharge
    s0, s1, s2,     \* the snapshots tau0/1/2, dzdt0/1/2 or q0/1/2
    dzdt,           \* self.dzdt
    q_total_vol,
    q_eff,          \* grid field surface_water_effective__discharge
    q_an,           \* grid field surface_water_area_norm__discharge
    time,           \* self.time
    calls,          \* the calls made on the collaborators in this step
    m_pc,           \* the position of SteadyRechargeShearStress.run_model
    m_T,            \* self.T
    m_MSF,          \* self.MSF
    m_dt_h,         \* self.dt_h
    m_N,            \* self.N
    m_i,            \* the loop's index
    m_cores,        \* self._cores
    m_elev,         \* grid field topographic__elevation
    m_base,         \* grid field aquifer_base__elevation
    m_save,         \* self.save_output
    m_interval,     \* self.output_interval
    m_pits,         \* self.dfr._number_of_pits
    m_log,          \* the statements of the current iteration, in order
    m_written       \* the iterations at which output was written

aggVars == <<a_pc, a_tau0, a_tau1, a_tau2, a_tauc, a_tr, a_tb,
             a_tauint1, a_tauint2, a_taueff>>

objVars == <<c_pc, routing_method, components, fields,
             variant, erosion_fn, tauc, E0, Ksp, area, S, cores>>

stepVars == <<attrs, op, pc, step_no, raised, forcing, storms, i, recharge,
              number_of_substeps, max_substeps_storm, max_substeps_interstorm,
              wt_depth, recharge_at_depth, r, q, tau, Q0, s0, s1, s2, dzdt,
              q_total_vol, q_eff, q_an, time, calls>>

modelVars == <<m_pc, m_T, m_MSF, m_dt_h, m_N, m_i, m_cores, m_elev, m_base,
               m_save, m_interval, m_pits, m_log, m_written>>

vars == <<aggVars, modelVars, objVars, stepVars>>

\* The landscape evolution model's variables while it is not what is modelled.
ModelIdle ==
    /\ m_pc = "unused"
    /\ m_T = 0 /\ m_MSF = 1 /\ m_dt_h = 1 /\ m_N = 0 /\ m_i = 0
    /\ m_cores = {}
    /\ m_elev = [n \in Nodes |-> 0]
    /\ m_base = [n \in Nodes |-> 0]
    /\ m_save = FALSE /\ m_interval = 1 /\ m_pits = 0
    /\ m_log = <<>>
    /\ m_written = {}

\* ---------------------------------------------------------- construction
\* The object after __init__: zero fields (add_zeros), no step run yet. The
\* solver of a steady class holds the recharge rate it was constructed with.
NewObject ==
    /\ op = "none"
    /\ pc = "idle"
    /\ step_no = 0
    /\ raised = "none"
    /\ forcing = <<>>
    /\ storms = <<>>
    /\ i = 0
    /\ recharge = IF variant \in SteadyVariants
                  THEN [n \in Nodes |-> Num(1)] ELSE ZeroN
    /\ r = ZeroN
    /\ number_of_substeps = 0
    /\ max_substeps_storm = 0
    /\ max_substeps_interstorm = 0
    /\ wt_depth = [n \in Nodes |-> 1]
    /\ recharge_at_depth = <<0, 0>>
    /\ q = [n \in Nodes |-> 0]
    /\ tau = ZeroN
    /\ Q0 = ZeroN
    /\ s0 = ZeroN /\ s1 = ZeroN /\ s2 = ZeroN
    /\ dzdt = ZeroN
    /\ q_total_vol = ZeroN
    /\ q_eff = ZeroN
    /\ q_an = ZeroN
    /\ time = <<>>
    /\ calls = <<>>

\* __init__ of class v has returned, called with the default routing_method.
Built(v) ==
    /\ c_pc = "done"
    /\ routing_method = "D8"
    /\ components = {FlowDirector("D8")} \cup BaseComponents
    /\ fields = Range(FieldsOf(v))

\* The aggregator's variables while the step operations are what is modelled.
AggIdle ==
    /\ a_pc = "unused"
    /\ a_tau0 = ZeroAgg /\ a_tau1 = ZeroAgg /\ a_tau2 = ZeroAgg
    /\ a_tauc = Zero /\ a_tr = 0 /\ a_tb = 0
    /\ a_tauint1 = ZeroAgg /\ a_tauint2 = ZeroAgg /\ a_taueff = ZeroAgg

\* Any of the event-driven classes, constructed with any of the parameters
\* its step operations read. The caller may have attached _wt, _base and _elev
\* to a HydrologyEventShearStress, whose __init__ sets none of them.
Init ==
    /\ AggIdle
    /\ ModelIdle
    /\ variant \in Variants
    /\ erosion_fn \in IF variant \in ShearVariants
                      THEN {"constant", "proportional"} ELSE {"none"}
    /\ tauc \in IF variant = IntegrateShearStress THEN {0, 1} ELSE {0}
    /\ E0 \in IF variant = EventThresholdStreamPower THEN {0, 1} ELSE {0}
    /\ Ksp = 1
    /\ area \in IF variant \in StreamVariants
                THEN [Nodes -> {0, 4}] ELSE [Nodes -> {4}]
    /\ S \in IF variant = EventThresholdStreamPower
             THEN [Nodes -> {0, 4}] ELSE [Nodes -> {1}]
    /\ cores \in IF variant = EventVadoseStreamPower
                 THEN SUBSET Nodes ELSE {Nodes}
    /\ attrs \in IF variant = EventShearStress THEN {{}, {"_wt"}} ELSE {{}}
    /\ Built(variant)
    /\ NewObject

\* ------------------------------------------------------ the step operations
Records == op = "run_step_record_state"
\* run_step of the discharge classes iterates the generator itself; every
\* other step operation iterates the lists generate_exp_precip stored.
Lazy == variant \in StreamVariants /\ op = "run_step"
Pairs == IF Lazy THEN storms ELSE forcing
storm_dt == Pairs[i + 1].storm_dt
interstorm_dt == Pairs[i + 1].interstorm_dt
\* (variant of intensity) the intensity of the first storm.
intensity_of_first_storm == Pairs[1].intensity

intensity == Pairs[i + 1].intensity

Max(a, b) == IF a < b THEN b ELSE a

\* One more call on a collaborator: its name, its argument, what it returned.
Log(name, arg, out) ==
    calls' = Append(calls, [c |-> name, arg |-> arg, out |-> out])

\* The step operation ends, normally ("none") or by raising; its locals go.
Returned(exc) ==
    /\ pc' = "idle"
    /\ raised' = exc
    /\ storms' = <<>>
    /\ i' = 0
    /\ s0' = ZeroN /\ s1' = ZeroN /\ s2' = ZeroN
    /\ q_total_vol' = ZeroN

\* (variant of FirstPc) run_step of the discharge classes starting at the
\* flow-direction update.
FirstPc_flow_directions_first(v, o) ==
    IF v \in ShearVariants
    THEN (IF o = "run_step" THEN "gen" ELSE "alloc")
    ELSE (IF o = "run_step" THEN "fd" ELSE "gen")

\* (variant of FirstPc) the steady classes starting at the pit detection.
FirstPc_steady_pits_first(v, o) ==
    IF v \in SteadyVariants THEN "pits"
    ELSE IF v \in ShearVariants
    THEN (IF o = "run_step" THEN "gen" ELSE "alloc")
    ELSE (IF o = "run_step" THEN "pits" ELSE "gen")

\* Where a step operation starts.
FirstPc(v, o) ==
    IF v \in SteadyVariants THEN "st_gw"
    ELSE IF v \in ShearVariants
    THEN (IF o = "run_step" THEN "gen" ELSE "alloc")
    ELSE (IF o = "run_step" THEN "pits" ELSE "gen")

\* (variant of AfterPits) on to what follows the flow-direction update.
AfterPits_skips_directions ==
    IF variant \in SteadyVariants THEN "st_fa"
    ELSE IF variant = EventThresholdStreamPower THEN "Q0"
    ELSE IF variant \in StreamVariants /\ Records THEN "alloc"
    ELSE "reset"

\* What follows the pit detection and lake filling: the flow-direction update,
\* or self.fa.run_one_step() in the steady classes.
AfterPits == IF variant \in SteadyVariants THEN "st_fa" ELSE "fd"

\* The `for` statement with index idx over seq: into the body, or past it.
LoopHead(idx, seq) ==
    IF idx < Len(seq)
    THEN (IF variant = EventVadoseStreamPower THEN "ev_svm" ELSE "ev_gw")
    ELSE "final"

\* The floor of the interevent duration handed to the groundwater solver.
interevent_duration ==
    IF variant = EventShearStress /\ Records
    THEN interstorm_dt
    ELSE Max(interstorm_dt, EPS)

\* What the solver may report as number_of_substeps after running dt.
SubstepCounts(env, dt) == IF dt = 0 THEN {0} ELSE env.Substeps

\* An integer array as the float array numpy holds.
AsFloat(a) == [n \in Nodes |-> Num(a[n])]

\* (variant of excess_discharge) the difference not floored at 0.
excess_discharge_unclipped(qq, q0) ==
    [n \in Nodes |-> RSub(Num(qq[n]), q0[n])]

\* np.maximum(q - self.Q0, 0.0)
excess_discharge(qq, q0) ==
    [n \in Nodes |-> RMax(RSub(Num(qq[n]), q0[n]), Zero)]

\* The snapshot the discharge classes take of what accumulate_flow returned.
discharge_snapshot(qq) ==
    IF variant = EventThresholdStreamPower
    THEN excess_discharge(qq, Q0)
    ELSE AsFloat(qq)

\* (variants of trapezoid) the end value alone, the start value alone.
trapezoid_end_only(v0, v1, dt) == [n \in Nodes |-> RMul(v1[n], Num(dt))]
trapezoid_start_only(v0, v1, dt) == [n \in Nodes |-> RMul(v0[n], Num(dt))]

\* 0.5 * (v0 + v1) * dt, element-wise.
trapezoid(v0, v1, dt) ==
    [n \in Nodes |-> RMul(RMul(Half, RAdd(v0[n], v1[n])), Num(dt))]

\* (variant of pair_weight) the event's duration alone over the horizon.
pair_weight_storm_only(sdt, idt) == Rat(sdt, T_h)

\* (storm_dt + interstorm_dt) / self.T_h
pair_weight(sdt, idt) == Rat(sdt + idt, T_h)

\* x + w * y and w * x, element-wise.
add_scaled(x, w, y) == [n \in Nodes |-> RAdd(x[n], RMul(w, y[n]))]
scaled(x, w) == [n \in Nodes |-> RMul(w, x[n])]

\* A caller invokes step operation o on the idle object.
Call(o) ==
    /\ pc = "idle"
    /\ step_no < MaxSteps
    /\ o \in Ops(variant)
    /\ op' = o
    /\ step_no' = step_no + 1
    /\ raised' = "none"
    /\ calls' = <<>>
    /\ pc' = FirstPc(variant, o)
    /\ UNCHANGED <<aggVars, modelVars, objVars>>
    /\ UNCHANGED <<attrs, forcing, storms, i, recharge, number_of_substeps,
                  max_substeps_storm, max_substeps_interstorm, wt_depth,
                  recharge_at_depth, r, q, tau, Q0, s0, s1, s2, dzdt,
                  q_total_vol, q_eff, q_an, time>>

\* generate_exp_precip: one pass over pd.yield_storms(), stored in the lists.
GenerateExpPrecip(env) ==
    /\ pc = "gen"
    /\ \E seq \in env.Storms :
          /\ forcing' = seq
          /\ Log("yield_storms", 0, seq)
    /\ attrs' = attrs \cup {"storm_dts"}
    /\ pc' = "pits"
    /\ UNCHANGED <<aggVars, modelVars, objVars>>
    /\ UNCHANGED <<op, step_no, raised, storms, i, recharge,
                  number_of_substeps, max_substeps_storm,
                  max_substeps_interstorm, wt_depth, recharge_at_depth, r, q,
                  tau, Q0, s0, s1, s2, dzdt, q_total_vol, q_eff, q_an, time>>

\* run_step_record_state: the arrays of 2*len(self.storm_dts)+1 time points.
AllocateRecord ==
    /\ pc = "alloc"
    /\ "storm_dts" \in attrs
    /\ time' = [k \in 1..(2 * Len(forcing) + 1) |-> 0]
    /\ max_substeps_storm' = 0
    /\ max_substeps_interstorm' = 0
    /\ pc' = IF variant = EventShearStress THEN "pits" ELSE "reset"
    /\ UNCHANGED <<aggVars, modelVars, objVars>>
    /\ UNCHANGED <<attrs, op, step_no, raised, forcing, storms, i, recharge,
                  number_of_substeps, wt_depth, recharge_at_depth, r, q, tau,
                  Q0, s0, s1, s2, dzdt, q_total_vol, q_eff, q_an, calls>>

\* HydrologyEventShearStress.run_step_record_state reads self.storm_dts, which
\* only generate_exp_precip sets: AttributeError on an object that never ran it.
AllocateRecordFails ==
    /\ pc = "alloc"
    /\ "storm_dts" \notin attrs
    /\ Returned("AttributeError")
    /\ UNCHANGED <<aggVars, modelVars, objVars>>
    /\ UNCHANGED <<attrs, op, step_no, forcing, recharge, number_of_substeps,
                  max_substeps_storm, max_substeps_interstorm, wt_depth,
                  recharge_at_depth, r, q, tau, Q0, dzdt, q_eff, q_an, time,
                  calls>>

\* self.dfr._find_pits()
FindPits ==
    /\ pc = "pits"
    /\ \E np \in 0..MaxPits :
          /\ Log("find_pits", 0, np)
          /\ pc' = IF np > 0 THEN "lake" ELSE AfterPits
    /\ UNCHANGED <<aggVars, modelVars, objVars>>
    /\ UNCHANGED <<attrs, op, step_no, raised, forcing, storms, i, recharge,
                  number_of_substeps, max_substeps_storm,
                  max_substeps_interstorm, wt_depth, recharge_at_depth, r, q,
                  tau, Q0, s0, s1, s2, dzdt, q_total_vol, q_eff, q_an, time>>

\* self.lmb.run_one_step(), when pits were found
LakeFill ==
    /\ pc = "lake"
    /\ Log("lmb", 0, 0)
    /\ pc' = AfterPits
    /\ UNCHANGED <<aggVars, modelVars, objVars>>
    /\ UNCHANGED <<attrs, op, step_no, raised, forcing, storms, i, recharge,
                  number_of_substeps, max_substeps_storm,
                  max_substeps_interstorm, wt_depth, recharge_at_depth, r, q,
                  tau, Q0, s0, s1, s2, dzdt, q_total_vol, q_eff, q_an, time>>

\* self.fd.run_one_step()
FlowDirections ==
    /\ pc = "fd"
    /\ Log("fd", 0, 0)
    /\ pc' = IF variant = EventThresholdStreamPower THEN "Q0"
             ELSE IF variant \in StreamVariants /\ Records THEN "alloc"
             ELSE "reset"
    /\ UNCHANGED <<aggVars, modelVars, objVars>>
    /\ UNCHANGED <<attrs, op, step_no, raised, forcing, storms, i, recharge,
                  number_of_substeps, max_substeps_storm,
                  max_substeps_interstorm, wt_depth, recharge_at_depth, r, q,
                  tau, Q0, s0, s1, s2, dzdt, q_total_vol, q_eff, q_an, time>>

\* HydrologyEventThresholdStreamPower: the slope, one accumulation to update
\* the area, and critical_erosion__discharge.
CriticalDischarge(env) ==
    /\ pc = "Q0"
    /\ \E qq \in [Nodes -> env.Q] :
          /\ q' = qq
          /\ Log("fa", FALSE, qq)
    /\ Q0' = critical_discharge(E0, Ksp, area, S)
    /\ pc' = IF Records THEN "alloc" ELSE "reset"
    /\ UNCHANGED <<aggVars, modelVars, objVars>>
    /\ UNCHANGED <<attrs, op, step_no, raised, forcing, storms, i, recharge,
                  number_of_substeps, max_substeps_storm,
                  max_substeps_interstorm, wt_depth, recharge_at_depth, r,
                  tau, s0, s1, s2, dzdt, q_total_vol, q_eff, q_an, time>>

\* (variant of previous_snapshot) zeros in every class.
previous_snapshot_zeros == ZeroN

\* The end-of-interevent snapshot the first pair starts from: tau2 =
\* self._tau.copy() in HydrologyIntegrateShearStress, zeros in the others.
previous_snapshot == IF variant = IntegrateShearStress THEN tau ELSE ZeroN

\* The statements before the loop: the accumulator and the previous snapshot.
Reset ==
    /\ pc = "reset"
    /\ max_substeps_storm' =
          IF variant = IntegrateShearStress THEN max_substeps_storm ELSE 0
    /\ max_substeps_interstorm' =
          IF variant = IntegrateShearStress THEN max_substeps_interstorm ELSE 0
    /\ dzdt' = IF variant \in ShearVariants THEN ZeroN ELSE dzdt
    /\ q_total_vol' = ZeroN
    /\ s2' = previous_snapshot
    /\ i' = 0
    /\ pc' = IF Lazy THEN "yield" ELSE LoopHead(0, forcing)
    /\ UNCHANGED <<aggVars, modelVars, objVars>>
    /\ UNCHANGED <<attrs, op, step_no, raised, forcing, storms, recharge,
                  number_of_substeps, wt_depth, recharge_at_depth, r, q, tau,
                  Q0, s0, s1, q_eff, q_an, time, calls>>

\* for (storm_dt, interstorm_dt) in self.pd.yield_storms(): the generator the
\* loop of run_step consumes.
YieldStorms(env) ==
    /\ pc = "yield"
    /\ \E seq \in env.Storms :
          /\ storms' = seq
          /\ Log("yield_storms", 0, seq)
          /\ pc' = LoopHead(0, seq)
    /\ UNCHANGED <<aggVars, modelVars, objVars>>
    /\ UNCHANGED <<attrs, op, step_no, raised, forcing, i, recharge,
                  number_of_substeps, max_substeps_storm,
                  max_substeps_interstorm, wt_depth, recharge_at_depth, r, q,
                  tau, Q0, s0, s1, s2, dzdt, q_total_vol, q_eff, q_an, time>>

\* HydrologyEventVadoseStreamPower: run the vadose model for the event and turn
\* its profile into the recharge of the core nodes.
VadoseEvent(env) ==
    /\ pc = "ev_svm"
    /\ s0' = s2
    /\ \E prof \in {f[intensity * storm_dt] : f \in env.Profiles} :
          /\ recharge_at_depth' = prof
          /\ Log("svm.run_event", intensity * storm_dt, prof)
          /\ r' = [n \in Nodes |->
                     IF n \in cores
                     THEN Rat(prof[wt_digitized(wt_depth[n], svm_depths) + 1],
                              storm_dt)
                     ELSE r[n]]
    /\ pc' = "ev_gw"
    /\ UNCHANGED <<aggVars, modelVars, objVars>>
    /\ UNCHANGED <<attrs, op, step_no, raised, forcing, storms, i, recharge,
                  number_of_substeps, max_substeps_storm,
                  max_substeps_interstorm, wt_depth, q, tau, Q0, s1, s2,
                  dzdt, q_total_vol, q_eff, q_an, time>>

\* The event: set the recharge and advance the groundwater solver by storm_dt.
EventAdvance(env) ==
    /\ pc = "ev_gw"
    /\ s0' = IF variant = EventVadoseStreamPower THEN s0 ELSE s2
    /\ recharge' = IF variant = EventVadoseStreamPower THEN r
                   ELSE [n \in Nodes |-> Num(intensity)]
    /\ \E ns \in SubstepCounts(env, storm_dt) :
          /\ number_of_substeps' = ns
          /\ Log("gw", storm_dt, ns)
    /\ wt_depth' \in IF variant = EventVadoseStreamPower
                     THEN [Nodes -> env.Depth] ELSE {wt_depth}
    /\ pc' = "ev_fa"
    /\ UNCHANGED <<aggVars, modelVars, objVars>>
    /\ UNCHANGED <<attrs, op, step_no, raised, forcing, storms, i,
                  max_substeps_storm, max_substeps_interstorm,
                  recharge_at_depth, r, q, tau, Q0, s1, s2, dzdt,
                  q_total_vol, q_eff, q_an, time>>

\* accumulate_flow(update_flow_director=False) at the end of the event; the
\* discharge classes keep the snapshot q1 and the running maximum.
EventAccumulate(env) ==
    /\ pc = "ev_fa"
    /\ \E qq \in IF variant \in StreamVariants THEN [Nodes -> env.Q] ELSE {q} :
          /\ q' = qq
          /\ Log("fa", FALSE, qq)
          /\ s1' = IF variant \in StreamVariants THEN discharge_snapshot(qq) ELSE s1
    /\ max_substeps_storm' =
          IF variant \in StreamVariants
          THEN Max(max_substeps_storm, number_of_substeps)
          ELSE max_substeps_storm
    /\ pc' = IF variant \in ShearVariants THEN "ev_fn"
             ELSE IF Records THEN "ev_rec"
             ELSE IF variant = EventVadoseStreamPower THEN "iv_svm"
             ELSE "iv_gw"
    /\ UNCHANGED <<aggVars, modelVars, objVars>>
    /\ UNCHANGED <<attrs, op, step_no, raised, forcing, storms, i, recharge,
                  number_of_substeps, max_substeps_interstorm, wt_depth,
                  recharge_at_depth, r, tau, Q0, s0, s2, dzdt, q_total_vol,
                  q_eff, q_an, time>>

\* The shear stress classes at the end of the event: tau1 from the shear stress
\* function, or the field, the erosion rate dzdt1 and the running maximum.
EventShearErosion(env) ==
    /\ pc = "ev_fn"
    /\ \E t \in [Nodes -> env.Shear] :
          IF variant = IntegrateShearStress
          THEN /\ s1' = AsFloat(t)
               /\ tau' = tau
               /\ Log("shear", 0, AsFloat(t))
          ELSE /\ tau' = AsFloat(t)
               /\ s1' = calc_erosion_from_shear_stress(erosion_fn, AsFloat(t))
               /\ calls' = calls \o
                    << [c |-> "shear", arg |-> 0, out |-> AsFloat(t)],
                       [c |-> "erosion", arg |-> AsFloat(t),
                        out |-> calc_erosion_from_shear_stress(erosion_fn, AsFloat(t))] >>
    /\ max_substeps_storm' =
          IF variant = EventShearStress
          THEN Max(max_substeps_storm, number_of_substeps)
          ELSE max_substeps_storm
    /\ pc' = IF Records THEN "ev_rec" ELSE "iv_gw"
    /\ UNCHANGED <<aggVars, modelVars, objVars>>
    /\ UNCHANGED <<attrs, op, step_no, raised, forcing, storms, i, recharge,
                  number_of_substeps, max_substeps_interstorm, wt_depth,
                  recharge_at_depth, r, q, Q0, s0, s2, dzdt, q_total_vol,
                  q_eff, q_an, time>>

\* record event: the time point at the end of the event.
EventRecord ==
    /\ pc = "ev_rec"
    /\ variant = EventShearStress => "_wt" \in attrs
    /\ time' = [time EXCEPT ![2 * i + 2] = time[2 * i + 1] + storm_dt]
    /\ pc' = IF variant = EventVadoseStreamPower THEN "iv_svm" ELSE "iv_gw"
    /\ UNCHANGED <<aggVars, modelVars, objVars>>
    /\ UNCHANGED <<attrs, op, step_no, raised, forcing, storms, i, recharge,
                  number_of_substeps, max_substeps_storm,
                  max_substeps_interstorm, wt_depth, recharge_at_depth, r, q,
                  tau, Q0, s0, s1, s2, dzdt, q_total_vol, q_eff, q_an, calls>>

\* HydrologyEventShearStress.run_step_record_state reads self._wt, self._base
\* and self._elev, which its __init__ never sets: AttributeError, after the
\* time point was written.
EventRecordFails ==
    /\ pc = "ev_rec"
    /\ variant = EventShearStress
    /\ "_wt" \notin attrs
    /\ time' = [time EXCEPT ![2 * i + 2] = time[2 * i + 1] + storm_dt]
    /\ Returned("AttributeError")
    /\ UNCHANGED <<aggVars, modelVars, objVars>>
    /\ UNCHANGED <<attrs, op, step_no, forcing, recharge, number_of_substeps,
                  max_substeps_storm, max_substeps_interstorm, wt_depth,
                  recharge_at_depth, r, q, tau, Q0, dzdt, q_eff, q_an, calls>>

\* HydrologyEventVadoseStreamPower: run the vadose model for the interevent.
VadoseInterevent ==
    /\ pc = "iv_svm"
    /\ Log("svm.run_interevent", interstorm_dt, 0)
    /\ pc' = "iv_gw"
    /\ UNCHANGED <<aggVars, modelVars, objVars>>
    /\ UNCHANGED <<attrs, op, step_no, raised, forcing, storms, i, recharge,
                  number_of_substeps, max_substeps_storm,
                  max_substeps_interstorm, wt_depth, recharge_at_depth, r, q,
                  tau, Q0, s0, s1, s2, dzdt, q_total_vol, q_eff, q_an, time>>

\* The interevent: recharge 0 and the groundwater solver advanced.
InterAdvance(env) ==
    /\ pc = "iv_gw"
    /\ recharge' = ZeroN
    /\ \E ns \in SubstepCounts(env, interevent_duration) :
          /\ number_of_substeps' = ns
          /\ Log("gw", interevent_duration, ns)
    /\ wt_depth' \in IF variant = EventVadoseStreamPower
                     THEN [Nodes -> env.Depth] ELSE {wt_depth}
    /\ pc' = "iv_fa"
    /\ UNCHANGED <<aggVars, modelVars, objVars>>
    /\ UNCHANGED <<attrs, op, step_no, raised, forcing, storms, i,
                  max_substeps_storm, max_substeps_interstorm,
                  recharge_at_depth, r, q, tau, Q0, s0, s1, s2, dzdt,
                  q_total_vol, q_eff, q_an, time>>

\* accumulate_flow(update_flow_director=False) at the end of the interevent;
\* the discharge classes keep the snapshot q2 and the running maximum.
InterAccumulate(env) ==
    /\ pc = "iv_fa"
    /\ \E qq \in IF variant \in StreamVariants THEN [Nodes -> env.Q] ELSE {q} :
          /\ q' = qq
          /\ Log("fa", FALSE, qq)
          /\ s2' = IF variant \in StreamVariants THEN discharge_snapshot(qq) ELSE s2
    /\ max_substeps_interstorm' =
          IF variant \in StreamVariants
          THEN Max(max_substeps_interstorm, number_of_substeps)
          ELSE max_substeps_interstorm
    /\ pc' = IF variant \in ShearVariants THEN "iv_fn"
             ELSE IF Records THEN "iv_rec"
             ELSE "accum"
    /\ UNCHANGED <<aggVars, modelVars, objVars>>
    /\ UNCHANGED <<attrs, op, step_no, raised, forcing, storms, i, recharge,
                  number_of_substeps, max_substeps_storm, wt_depth,
                  recharge_at_depth, r, tau, Q0, s0, s1, dzdt, q_total_vol,
                  q_eff, q_an, time>>

\* The shear stress classes at the end of the interevent: tau2, or the field,
\* the erosion rate dzdt2 and the running maximum.
InterShearErosion(env) ==
    /\ pc = "iv_fn"
    /\ \E t \in [Nodes -> env.Shear] :
          IF variant = IntegrateShearStress
          THEN /\ s2' = AsFloat(t)
               /\ tau' = tau
               /\ Log("shear", 0, AsFloat(t))
          ELSE /\ tau' = AsFloat(t)
               /\ s2' = calc_erosion_from_shear_stress(erosion_fn, AsFloat(t))
               /\ calls' = calls \o
                    << [c |-> "shear", arg |-> 0, out |-> AsFloat(t)],
                       [c |-> "erosion", arg |-> AsFloat(t),
                        out |-> calc_erosion_from_shear_stress(erosion_fn, AsFloat(t))] >>
    /\ max_substeps_interstorm' =
          IF variant = EventShearStress
          THEN Max(max_substeps_interstorm, number_of_substeps)
          ELSE max_substeps_interstorm
    /\ pc' = IF Records THEN "iv_rec" ELSE "accum"
    /\ UNCHANGED <<aggVars, modelVars, objVars>>
    /\ UNCHANGED <<attrs, op, step_no, raised, forcing, storms, i, recharge,
                  number_of_substeps, max_substeps_storm, wt_depth,
                  recharge_at_depth, r, q, Q0, s0, s1, dzdt, q_total_vol,
                  q_eff, q_an, time>>

\* record interevent: the time point at the end of the interevent.
InterRecord ==
    /\ pc = "iv_rec"
    /\ time' = [time EXCEPT ![2 * i + 3] = time[2 * i + 2] + interstorm_dt]
    /\ pc' = "accum"
    /\ UNCHANGED <<aggVars, modelVars, objVars>>
    /\ UNCHANGED <<attrs, op, step_no, raised, forcing, storms, i, recharge,
                  number_of_substeps, max_substeps_storm,
                  max_substeps_interstorm, wt_depth, recharge_at_depth, r, q,
                  tau, Q0, s0, s1, s2, dzdt, q_total_vol, q_eff, q_an, calls>>

\* The pair's contribution to the accumulator, and the loop's next index.
Accumulate ==
    /\ pc = "accum"
    /\ IF variant = IntegrateShearStress
       THEN LET eff == calc_storm_eff_shear_stress(s0, s1, s2, Num(tauc),
                                                   storm_dt, interstorm_dt)
                rate == calc_erosion_from_shear_stress(erosion_fn, eff)
            IN  /\ tau' = eff
                /\ Log("erosion", eff, rate)
                /\ dzdt' = add_scaled(dzdt, pair_weight(storm_dt, interstorm_dt), rate)
                /\ q_total_vol' = q_total_vol
       ELSE IF variant = EventShearStress
       THEN /\ dzdt' = add_scaled(dzdt, Rat(1, T_h), trapezoid(s0, s1, storm_dt))
            /\ UNCHANGED <<tau, calls, q_total_vol>>
       ELSE /\ q_total_vol' = add_scaled(q_total_vol, Num(1),
                                         trapezoid(s0, s1, storm_dt))
            /\ UNCHANGED <<tau, calls, dzdt>>
    /\ i' = i + 1
    /\ pc' = LoopHead(i + 1, Pairs)
    /\ UNCHANGED <<aggVars, modelVars, objVars>>
    /\ UNCHANGED <<attrs, op, step_no, raised, forcing, storms, recharge,
                  number_of_substeps, max_substeps_storm,
                  max_substeps_interstorm, wt_depth, recharge_at_depth, r, q,
                  Q0, s0, s1, s2, q_eff, q_an, time>>

\* After the loop: the discharge classes write the effective discharge and its
\* area-normalized form; the step operation returns.
Finalize ==
    /\ pc = "final"
    /\ q_eff' = IF variant \in StreamVariants
                THEN scaled(q_total_vol, Rat(1, T_h)) ELSE q_eff
    /\ q_an' = IF variant \in StreamVariants
               THEN area_norm(scaled(q_total_vol, Rat(1, T_h)), area) ELSE q_an
    /\ Returned("none")
    /\ UNCHANGED <<aggVars, modelVars, objVars>>
    /\ UNCHANGED <<attrs, op, step_no, forcing, recharge, number_of_substeps,
                  max_substeps_storm, max_substeps_interstorm, wt_depth,
                  recharge_at_depth, r, q, tau, Q0, dzdt, time, calls>>

\* The steady classes: the groundwater solver advanced by the whole step.
SteadyAdvance(env) ==
    /\ pc = "st_gw"
    /\ \E ns \in SubstepCounts(env, T_h) :
          /\ number_of_substeps' = ns
          /\ Log("gw", T_h, ns)
    /\ pc' = "pits"
    /\ UNCHANGED <<aggVars, modelVars, objVars>>
    /\ UNCHANGED <<attrs, op, step_no, raised, forcing, storms, i, recharge,
                  max_substeps_storm, max_substeps_interstorm, wt_depth,
                  recharge_at_depth, r, q, tau, Q0, s0, s1, s2, dzdt,
                  q_total_vol, q_eff, q_an, time>>

\* The steady classes: self.fa.run_one_step(), directions and accumulation.
SteadyAccumulate(env) ==
    /\ pc = "st_fa"
    /\ \E qq \in [Nodes -> env.Q] :
          /\ q' = qq
          /\ Log("fa", TRUE, qq)
    /\ pc' = IF variant = SteadyShearStress THEN "st_fn" ELSE "st_clamp"
    /\ UNCHANGED <<aggVars, modelVars, objVars>>
    /\ UNCHANGED <<attrs, op, step_no, raised, forcing, storms, i, recharge,
                  number_of_substeps, max_substeps_storm,
                  max_substeps_interstorm, wt_depth, recharge_at_depth, r,
                  tau, Q0, s0, s1, s2, dzdt, q_total_vol, q_eff, q_an, time>>

\* HydrologySteadyShearStress: the shear stress field and the erosion rate.
SteadyShearErosion(env) ==
    /\ pc = "st_fn"
    /\ \E t \in [Nodes -> env.Shear] :
          /\ tau' = AsFloat(t)
          /\ dzdt' = calc_erosion_from_shear_stress(erosion_fn, AsFloat(t))
          /\ calls' = calls \o
               << [c |-> "shear", arg |-> 0, out |-> AsFloat(t)],
                  [c |-> "erosion", arg |-> AsFloat(t),
                   out |-> calc_erosion_from_shear_stress(erosion_fn, AsFloat(t))] >>
    /\ Returned("none")
    /\ UNCHANGED <<aggVars, modelVars, objVars>>
    /\ UNCHANGED <<attrs, op, step_no, forcing, recharge, number_of_substeps,
                  max_substeps_storm, max_substeps_interstorm, wt_depth,
                  recharge_at_depth, r, q, Q0, q_eff, q_an, time>>

\* self.q[self.q > qmax] = qmax[self.q > qmax] with qmax = recharge * area,
\* on the grid's discharge field.
clamp_discharge(qq, rech, a) ==
    [n \in Nodes |->
        IF RGt(Num(qq[n]), RMul(rech[n], Num(a[n])))
        THEN RMul(rech[n], Num(a[n]))[1] ELSE qq[n]]

\* HydrologySteadyStreamPower: the discharge cut off at recharge * area, and
\* the area-normalized discharge.
SteadyClamp ==
    /\ pc = "st_clamp"
    /\ q' = clamp_discharge(q, recharge, area)
    /\ q_an' = area_norm(AsFloat(clamp_discharge(q, recharge, area)), area)
    /\ Returned("none")
    /\ UNCHANGED <<aggVars, modelVars, objVars>>
    /\ UNCHANGED <<attrs, op, step_no, forcing, recharge, number_of_substeps,
                  max_substeps_storm, max_substeps_interstorm, wt_depth,
                  recharge_at_depth, r, tau, Q0, dzdt, q_eff, time, calls>>

\* A collaborator called in the loop body raises: the vadose model, the
\* groundwater solver (the recharge is already set), the flow accumulator or
\* the shear stress function. The exception leaves the step operation; what
\* was written to the object before stays.
CollaboratorRaises ==
    /\ pc \in {"ev_svm", "ev_gw", "ev_fa", "ev_fn",
               "iv_svm", "iv_gw", "iv_fa", "iv_fn"}
    /\ recharge' = IF pc = "ev_gw"
                   THEN (IF variant = EventVadoseStreamPower THEN r
                         ELSE [n \in Nodes |-> Num(intensity)])
                   ELSE IF pc = "iv_gw" THEN ZeroN
                   ELSE recharge
    /\ Returned("CollaboratorError")
    /\ UNCHANGED <<aggVars, modelVars, objVars>>
    /\ UNCHANGED <<attrs, op, step_no, forcing, number_of_substeps,
                  max_substeps_storm, max_substeps_interstorm, wt_depth,
                  recharge_at_depth, r, q, tau, Q0, dzdt, q_eff, q_an, time,
                  calls>>

\* What the collaborators may answer: the discharges accumulate_flow reports,
\* the values of the shear stress function, the solver's sub-step counts, the
\* depths to the water table it leaves, the vadose model's profiles, the
\* storms of the precipitation generator.
RichEnv ==
    [Q |-> 0..MaxQ, Shear |-> 0..MaxShear, Substeps |-> 1..MaxSubsteps,
     Depth |-> DepthValues, Profiles |-> VadoseProfiles,
     Storms |-> ForcingSequences]

\* Collaborators that always answer the same: what is left is the control flow.
CoarseEnv ==
    [Q |-> {0}, Shear |-> {1}, Substeps |-> {1},
     Depth |-> {1}, Profiles |-> {[P \in 0..(2 * T_h) |-> <<P, 0>>]},
     Storms |-> ForcingSequences]

\* The same, the storms of one sequence differing in intensity.
StormyEnv == [CoarseEnv EXCEPT !.Storms = SequencesOf(VariedTriples)]

\* The statements every step operation has.
Common(env) ==
    \/ \E o \in {"run_step", "run_step_record_state"} : Call(o)
    \/ FindPits
    \/ LakeFill
    \/ FlowDirections
    \/ Reset
    \/ EventAdvance(env)
    \/ EventAccumulate(env)
    \/ InterAdvance(env)
    \/ InterAccumulate(env)
    \/ Accumulate
    \/ Finalize

Next ==
    \/ Common(CoarseEnv)
    \/ GenerateExpPrecip(CoarseEnv)
    \/ AllocateRecord
    \/ AllocateRecordFails
    \/ CriticalDischarge(CoarseEnv)
    \/ YieldStorms(CoarseEnv)
    \/ VadoseEvent(CoarseEnv)
    \/ EventShearErosion(CoarseEnv)
    \/ EventRecord
    \/ EventRecordFails
    \/ VadoseInterevent
    \/ InterShearErosion(CoarseEnv)
    \/ InterRecord

\* Every event-driven class, its collaborators answering the same each time.
Spec == Init /\ [][Next]_vars

\* HydrologyEventStreamPower with collaborators that answer anything.
InitStreamPower == Init /\ variant = EventStreamPower

NextStreamPower ==
    \/ Common(RichEnv)
    \/ GenerateExpPrecip(RichEnv)
    \/ AllocateRecord
    \/ YieldStorms(RichEnv)
    \/ EventRecord
    \/ InterRecord

SpecStreamPower == InitStreamPower /\ [][NextStreamPower]_vars

\* HydrologyIntegrateShearStress with collaborators that answer anything.
InitIntegrate == Init /\ variant = IntegrateShearStress

NextIntegrate ==
    \/ Common(RichEnv)
    \/ GenerateExpPrecip(RichEnv)
    \/ EventShearErosion(RichEnv)
    \/ InterShearErosion(RichEnv)

SpecIntegrate == InitIntegrate /\ [][NextIntegrate]_vars

\* HydrologyEventShearStress with collaborators that answer anything.
InitEventShear == Init /\ variant = EventShearStress

NextEventShear ==
    \/ Common(RichEnv)
    \/ GenerateExpPrecip(RichEnv)
    \/ AllocateRecord
    \/ AllocateRecordFails
    \/ EventShearErosion(RichEnv)
    \/ EventRecord
    \/ EventRecordFails
    \/ InterShearErosion(RichEnv)
    \/ InterRecord

SpecEventShear == InitEventShear /\ [][NextEventShear]_vars

\* The steady classes with collaborators that answer anything.
InitSteady ==
    /\ AggIdle
    /\ ModelIdle
    /\ variant \in SteadyVariants
    /\ erosion_fn \in IF variant = SteadyShearStress
                      THEN {"constant", "proportional"} ELSE {"none"}
    /\ tauc = 0 /\ E0 = 0 /\ Ksp = 1
    /\ area \in IF variant = SteadyStreamPower
                THEN [Nodes -> {0, 4}] ELSE [Nodes -> {4}]
    /\ S = [n \in Nodes |-> 1]
    /\ cores = Nodes
    /\ attrs = {}
    /\ Built(variant)
    /\ NewObject

NextSteady ==
    \/ Call("run_step")
    \/ SteadyAdvance(RichEnv)
    \/ FindPits
    \/ LakeFill
    \/ SteadyAccumulate(RichEnv)
    \/ SteadyShearErosion(RichEnv)
    \/ SteadyClamp

SpecSteady == InitSteady /\ [][NextSteady]_vars

\* The event-driven classes but the vadose one, storms of differing intensity.
InitRecharge == Init /\ variant # EventVadoseStreamPower

NextRecharge ==
    \/ Common(StormyEnv)
    \/ GenerateExpPrecip(StormyEnv)
    \/ AllocateRecord
    \/ AllocateRecordFails
    \/ CriticalDischarge(StormyEnv)
    \/ YieldStorms(StormyEnv)
    \/ EventShearErosion(StormyEnv)
    \/ EventRecord
    \/ EventRecordFails
    \/ InterShearErosion(StormyEnv)
    \/ InterRecord

SpecRecharge == InitRecharge /\ [][NextRecharge]_vars

\* Every class, its collaborators answering the same each time.
InitAll == Init \/ InitSteady

NextAll ==
    \/ Next
    \/ SteadyAdvance(CoarseEnv)
    \/ SteadyAccumulate(CoarseEnv)
    \/ SteadyShearErosion(CoarseEnv)
    \/ SteadyClamp

SpecAll == InitAll /\ [][NextAll]_vars

\* The same, the flow accumulator returning any discharge.
FlowEnv == [CoarseEnv EXCEPT !.Q = 0..MaxQ]

\* The discharge classes, steady and event-driven.
InitDischarge ==
    \/ Init /\ variant \in StreamVariants
    \/ InitSteady /\ variant = SteadyStreamPower

NextDischarge ==
    \/ Common(FlowEnv)
    \/ GenerateExpPrecip(FlowEnv)
    \/ AllocateRecord
    \/ CriticalDischarge(FlowEnv)
    \/ YieldStorms(FlowEnv)
    \/ VadoseEvent(FlowEnv)
    \/ EventRecord
    \/ VadoseInterevent
    \/ InterRecord
    \/ SteadyAdvance(FlowEnv)
    \/ SteadyAccumulate(FlowEnv)
    \/ SteadyClamp

SpecDischarge == InitDischarge /\ [][NextDischarge]_vars

\* HydrologyEventVadoseStreamPower, the vadose model returning any profile and
\* the solver leaving the water table at any depth.
VadoseEnv ==
    [CoarseEnv EXCEPT !.Depth = DepthValues, !.Profiles = VadoseProfiles]

InitVadose == Init /\ variant = EventVadoseStreamPower

NextVadose ==
    \/ Common(VadoseEnv)
    \/ GenerateExpPrecip(VadoseEnv)
    \/ AllocateRecord
    \/ YieldStorms(VadoseEnv)
    \/ VadoseEvent(VadoseEnv)
    \/ EventRecord
    \/ VadoseInterevent
    \/ InterRecord

SpecVadose == InitVadose /\ [][NextVadose]_vars

\* Every event-driven class, with collaborators that may raise in the loop.
NextFailure ==
    \/ Next
    \/ CollaboratorRaises

SpecFailure == Init /\ [][NextFailure]_vars

\* ------------------------------------------------------------ construction
\* A caller constructs an object of any class with any routing_method.
CtorInit ==
    /\ AggIdle
    /\ ModelIdle
    /\ c_pc = "new"
    /\ routing_method \in RoutingMethods
    /\ components = {}
    /\ fields = {}
    /\ variant \in AllVariants
    /\ erosion_fn = IF variant \in ShearVariants \cup {SteadyShearStress}
                    THEN "constant" ELSE "none"
    /\ tauc = 0 /\ E0 = 0 /\ Ksp = 1
    /\ area = [n \in Nodes |-> 4]
    /\ S = [n \in Nodes |-> 1]
    /\ cores = Nodes
    /\ attrs = {}
    /\ NewObject

\* One statement of a constructor: the construction variables change.
CtorStep == UNCHANGED <<aggVars, modelVars, stepVars, variant, erosion_fn,
                        tauc, E0, Ksp, area, S, cores, routing_method>>

\* super().__init__(grid, routing_method): self._grid = grid
SetGrid ==
    /\ c_pc = "new"
    /\ c_pc' = "director"
    /\ UNCHANGED <<components, fields>>
    /\ CtorStep

\* The flow director of the routing method.
CreateDirector ==
    /\ c_pc = "director"
    /\ ValidRouting(routing_method)
    /\ components' = components \cup {FlowDirector(routing_method)}
    /\ c_pc' = "accumulator"
    /\ UNCHANGED fields
    /\ CtorStep

\* raise ValueError("routing_method must be either D8 or Steepest.")
RejectRouting ==
    /\ c_pc = "director"
    /\ ~ValidRouting(routing_method)
    /\ c_pc' = "ValueError"
    /\ UNCHANGED <<components, fields>>
    /\ CtorStep

\* self.fa = FlowAccumulator(...)
CreateAccumulator ==
    /\ c_pc = "accumulator"
    /\ components' = components \cup {"FlowAccumulator"}
    /\ c_pc' = "lake_mapper"
    /\ UNCHANGED fields
    /\ CtorStep

\* self.lmb = LakeMapperBarnes(...)
CreateLakeMapper ==
    /\ c_pc = "lake_mapper"
    /\ components' = components \cup {"LakeMapperBarnes"}
    /\ c_pc' = "finder"
    /\ UNCHANGED fields
    /\ CtorStep

\* self.dfr = DepressionFinderAndRouter(self._grid); the base __init__ returns.
CreateDepressionFinder ==
    /\ c_pc = "finder"
    /\ components' = components \cup {"DepressionFinderAndRouter"}
    /\ c_pc' = "fields"
    /\ UNCHANGED fields
    /\ CtorStep

\* The rest of the class's own __init__: its fields, one add_zeros at a time.
AddField ==
    /\ c_pc = "fields"
    /\ LET todo == SelectSeq(FieldsOf(variant), LAMBDA f : f \notin fields)
       IN  /\ fields' = fields \cup {todo[1]}
           /\ c_pc' = IF Len(todo) = 1 THEN "done" ELSE "fields"
    /\ UNCHANGED components
    /\ CtorStep

CtorNext ==
    \/ SetGrid
    \/ CreateDirector
    \/ RejectRouting
    \/ CreateAccumulator
    \/ CreateLakeMapper
    \/ CreateDepressionFinder
    \/ AddField

SpecConstruct == CtorInit /\ [][CtorNext]_vars

\* ------------------------------------------- the aggregator, called alone

\* The caller's arguments: any arrays of snapshots, a threshold, two durations.
AggInit ==
    /\ a_pc = "args"
    /\ a_tau0 \in [AggNodes -> {Num(v) : v \in TauValues}]
    /\ a_tau1 \in [AggNodes -> {Num(v) : v \in TauValues}]
    /\ a_tau2 \in [AggNodes -> {Num(v) : v \in TauValues}]
    /\ a_tauc \in {Num(v) : v \in TaucValues}
    /\ \E p \in DurationPairs : a_tr = p[1] /\ a_tb = p[2]
    /\ a_tauint1 = ZeroAgg
    /\ a_tauint2 = ZeroAgg
    /\ a_taueff = ZeroAgg
    /\ ModelIdle
    /\ variant = IntegrateShearStress
    /\ erosion_fn = "constant"
    /\ tauc = 0 /\ E0 = 0 /\ Ksp = 1
    /\ area = [n \in Nodes |-> 4]
    /\ S = [n \in Nodes |-> 1]
    /\ cores = Nodes
    /\ attrs = {}
    /\ Built(IntegrateShearStress)
    /\ NewObject

\* One call of calc_storm_eff_shear_stress on the arguments.
AggCall ==
    /\ a_pc = "args"
    /\ a_pc' = "returned"
    /\ a_tauint1' = [n \in AggNodes |-> tauint1(a_tau0[n], a_tau1[n], a_tauc, a_tr)]
    /\ a_tauint2' = [n \in AggNodes |-> tauint2(a_tau1[n], a_tau2[n], a_tauc, a_tb)]
    /\ a_taueff' = calc_storm_eff_shear_stress(a_tau0, a_tau1, a_tau2,
                                                a_tauc, a_tr, a_tb)
    /\ UNCHANGED <<a_tau0, a_tau1, a_tau2, a_tauc, a_tr, a_tb>>
    /\ UNCHANGED <<modelVars, objVars, stepVars>>

AggNext == AggCall

SpecAgg == AggInit /\ [][AggNext]_vars

\* ------------------------------------ SteadyRechargeShearStress.run_model
\* self.U: the uniform uplift rate.
UpliftRate == 1

\* self.N = int(self.T // self.dt_m) with self.dt_m = self.MSF * self.dt_h
number_of_iterations(total_time, msf, dt) == total_time \div (msf * dt)

\* (variant of clamp_to_bedrock) the elevation left as it is.
clamp_to_bedrock_skipped(elev_field, base_field) == elev_field

\* self._elev[self._elev < self._base] = self._base[self._elev < self._base]
clamp_to_bedrock(elev_field, base_field) ==
    [n \in Nodes |-> IF elev_field[n] < base_field[n]
                     THEN base_field[n] ELSE elev_field[n]]

\* i % self.output_interval == 0 or i == max(range(N))
output_due(idx, interval, n_iter) ==
    idx % interval = 0 \/ idx = n_iter - 1

\* One more statement of the current iteration.
ModelLog(name) == m_log' = Append(m_log, name)

\* The fields the constructor leaves alone once it has returned.
modelParams == <<m_T, m_MSF, m_dt_h, m_N, m_cores, m_save, m_interval>>

\* A SteadyRechargeShearStress as __init__ leaves it, for any parameters and
\* any elevation fields on the grid.
ModelInit ==
    /\ AggIdle
    /\ m_pc = "new"
    /\ m_T \in 0..MaxTotalTime
    /\ m_MSF \in 1..MaxMSF
    /\ m_dt_h \in 1..MaxTimestep
    /\ m_N = number_of_iterations(m_T, m_MSF, m_dt_h)
    /\ m_i = 0
    /\ m_cores \in SUBSET Nodes
    /\ m_elev \in [Nodes -> 0..1]
    /\ m_base = [n \in Nodes |-> 0]
    /\ m_save \in BOOLEAN
    /\ m_interval \in 1..MaxInterval
    /\ m_pits = 0
    /\ m_log = <<>>
    /\ m_written = {}
    /\ variant = SteadyShearStress
    /\ erosion_fn = "constant"
    /\ tauc = 0 /\ E0 = 0 /\ Ksp = 1
    /\ area = [n \in Nodes |-> 4]
    /\ S = [n \in Nodes |-> 1]
    /\ cores = Nodes
    /\ attrs = {}
    /\ Built(SteadyShearStress)
    /\ NewObject

\* One statement of run_model: nothing but its own state changes.
ModelStep == UNCHANGED <<aggVars, objVars, stepVars, modelParams>>

\* run_model is called.
RunModel ==
    /\ m_pc = "new"
    /\ m_pc' = "loop"
    /\ UNCHANGED <<m_i, m_elev, m_base, m_pits, m_log, m_written>>
    /\ ModelStep

\* for i in range(N): into the body, or past the loop.
ModelLoop ==
    /\ m_pc = "loop"
    /\ m_pc' = IF m_i < m_N THEN "gw" ELSE "done"
    /\ m_log' = <<>>
    /\ UNCHANGED <<m_i, m_elev, m_base, m_pits, m_written>>
    /\ ModelStep

\* self.gdp.run_with_adaptive_time_step_solver(self.dt_h)
ModelGroundwater ==
    /\ m_pc = "gw"
    /\ ModelLog("gw")
    /\ m_pc' = "uplift"
    /\ UNCHANGED <<m_i, m_elev, m_base, m_pits, m_written>>
    /\ ModelStep

\* Uplift of the core nodes and regolith production, which lowers the aquifer
\* base against the uplift by w0 * exp(-(elev - base) / d_s) * dt_m >= 0.
Uplift ==
    /\ m_pc = "uplift"
    /\ \E produced \in [Nodes -> 0..MaxProduction] :
          /\ m_elev' = [n \in Nodes |->
                          IF n \in m_cores
                          THEN m_elev[n] + UpliftRate * m_MSF * m_dt_h
                          ELSE m_elev[n]]
          /\ m_base' = [n \in Nodes |->
                          IF n \in m_cores
                          THEN m_base[n] + UpliftRate * m_MSF * m_dt_h
                               - produced[n]
                          ELSE m_base[n]]
    /\ ModelLog("uplift")
    /\ m_pc' = "pits"
    /\ UNCHANGED <<m_i, m_pits, m_written>>
    /\ ModelStep

\* self.dfr._find_pits()
ModelFindPits ==
    /\ m_pc = "pits"
    /\ \E np \in 0..MaxPits :
          /\ m_pits' = np
          /\ m_pc' = IF np > 0 THEN "lake" ELSE "fa"
    /\ ModelLog("find_pits")
    /\ UNCHANGED <<m_i, m_elev, m_base, m_written>>
    /\ ModelStep

\* self.lmb.run_one_step(), when pits were found
ModelLakeFill ==
    /\ m_pc = "lake"
    /\ ModelLog("lmb")
    /\ m_pc' = "fa"
    /\ UNCHANGED <<m_i, m_elev, m_base, m_pits, m_written>>
    /\ ModelStep

\* self.fa.run_one_step()
ModelAccumulate ==
    /\ m_pc = "fa"
    /\ ModelLog("fa")
    /\ m_pc' = "ld"
    /\ UNCHANGED <<m_i, m_elev, m_base, m_pits, m_written>>
    /\ ModelStep

\* self.ld.run_one_step(self.dt_m): the diffuser moves the elevation.
Diffuse ==
    /\ m_pc = "ld"
    /\ \E moved \in [Nodes -> -1..1] :
          m_elev' = [n \in Nodes |-> m_elev[n] + moved[n]]
    /\ ModelLog("ld")
    /\ m_pc' = "erosion"
    /\ UNCHANGED <<m_i, m_base, m_pits, m_written>>
    /\ ModelStep

\* The shear stress, the erosion rate dzdt <= 0 it gives, and
\* self._elev += dzdt * self.dt_m
ShearErosion ==
    /\ m_pc = "erosion"
    /\ \E rate \in [Nodes -> 0..MaxErosion] :
          m_elev' = [n \in Nodes |-> m_elev[n] - rate[n] * m_MSF * m_dt_h]
    /\ m_log' = m_log \o <<"shear", "erosion">>
    /\ m_pc' = "clamp"
    /\ UNCHANGED <<m_i, m_base, m_pits, m_written>>
    /\ ModelStep

\* check for places where erosion to bedrock occurs
BedrockClamp ==
    /\ m_pc = "clamp"
    /\ m_elev' = clamp_to_bedrock(m_elev, m_base)
    /\ ModelLog("clamp")
    /\ m_pc' = "output"
    /\ UNCHANGED <<m_i, m_base, m_pits, m_written>>
    /\ ModelStep

\* The end of the iteration: the output files, when they are due.
WriteOutput ==
    /\ m_pc = "output"
    /\ m_written' = IF m_save /\ output_due(m_i, m_interval, m_N)
                    THEN m_written \cup {m_i} ELSE m_written
    /\ m_i' = m_i + 1
    /\ m_pc' = "loop"
    /\ UNCHANGED <<m_elev, m_base, m_pits, m_log>>
    /\ ModelStep

ModelNext ==
    \/ RunModel
    \/ ModelLoop
    \/ ModelGroundwater
    \/ Uplift
    \/ ModelFindPits
    \/ ModelLakeFill
    \/ ModelAccumulate
    \/ Diffuse
    \/ ShearErosion
    \/ BedrockClamp
    \/ WriteOutput

SpecModel == ModelInit /\ [][ModelNext]_vars
\* --------------------------------------------- properties of the aggregator
\* The triangle between the threshold crossing and the exceeding endpoint v,
\* the other endpoint being u: 0.5*d*(v-tauc)*((v-tauc)/(v-u)).
Triangle(d, v, u, th) ==
    RMul(RMul(RMul(Half, Num(d)), RSub(v, th)),
         RDiv(RSub(v, th), RSub(v, u)))

\* Exactly one endpoint of (a, b) exceeds tauc; then the integral i over d is
\* the triangle of the exceeding endpoint.
OneExceedsIsTriangle(a, b, th, d, ival) ==
    /\ (RGt(a, th) /\ ~RGt(b, th)) => ival = Triangle(d, a, b, th)
    /\ (RGt(b, th) /\ ~RGt(a, th)) => ival = Triangle(d, b, a, th)

\* C1: called with tau0=0, tau1=2, tau2=1, tauc=0, tr=100, tb=900 the function
\* returns 1.45 = (0.5*100*(0+2) + 0.5*900*(2+1))/1000 + 0 at that node.
C1_ScenarioReturns145 ==
    (a_pc = "returned" /\ a_tauc = Num(0) /\ a_tr = 100 /\ a_tb = 900) =>
        \A n \in AggNodes :
            (a_tau0[n] = Num(0) /\ a_tau1[n] = Num(2) /\ a_tau2[n] = Num(1))
                => a_taueff[n] = Rat(145, 100)

\* C2: at every node and in each of the two sub-intervals, whenever exactly one
\* endpoint exceeds tauc the sub-interval integral is the triangle area
\* 0.5*d*(v-tauc)*((v-tauc)/(v-u)), for every other endpoint u not exceeding tauc.
C2_OneExceedsGivesTriangle ==
    a_pc = "returned" =>
        \A n \in AggNodes :
            /\ OneExceedsIsTriangle(a_tau0[n], a_tau1[n], a_tauc, a_tr, a_tauint1[n])
            /\ OneExceedsIsTriangle(a_tau1[n], a_tau2[n], a_tauc, a_tb, a_tauint2[n])

\* The plain time-weighted trapezoid mean of three snapshots.
TrapezoidMean(t0, t1, t2, tr, tb) ==
    RDiv(RAdd(RMul(RMul(Half, Num(tr)), RAdd(t0, t1)),
              RMul(RMul(Half, Num(tb)), RAdd(t1, t2))),
         Num(tr + tb))

\* The trapezoid above the threshold: 0.5*d*(a+b-2*tauc).
TrapezoidAbove(a, b, th, d) ==
    RMul(RMul(Half, Num(d)), RSub(RSub(RAdd(a, b), th), th))

\* C3: where both endpoints of a sub-interval exceed tauc its integral is
\* 0.5*d*(a+b-2*tauc), where neither exceeds tauc it is 0, the returned value is
\* (integral1+integral2)/(tr+tb)+tauc, and where all three snapshots exceed tauc
\* the result is the plain trapezoid mean, whatever tauc is.
C3_TrapezoidAndMean ==
    a_pc = "returned" =>
        \A n \in AggNodes :
            /\ (RGt(a_tau0[n], a_tauc) /\ RGt(a_tau1[n], a_tauc))
                 => a_tauint1[n] = TrapezoidAbove(a_tau0[n], a_tau1[n], a_tauc, a_tr)
            /\ (RGt(a_tau1[n], a_tauc) /\ RGt(a_tau2[n], a_tauc))
                 => a_tauint2[n] = TrapezoidAbove(a_tau1[n], a_tau2[n], a_tauc, a_tb)
            /\ (~RGt(a_tau0[n], a_tauc) /\ ~RGt(a_tau1[n], a_tauc))
                 => a_tauint1[n] = Zero
            /\ (~RGt(a_tau1[n], a_tauc) /\ ~RGt(a_tau2[n], a_tauc))
                 => a_tauint2[n] = Zero
            /\ a_taueff[n] = RAdd(RDiv(RAdd(a_tauint1[n], a_tauint2[n]),
                                       Num(a_tr + a_tb)), a_tauc)
            /\ (RGt(a_tau0[n], a_tauc) /\ RGt(a_tau1[n], a_tauc)
                    /\ RGt(a_tau2[n], a_tauc))
                 => a_taueff[n] = TrapezoidMean(a_tau0[n], a_tau1[n], a_tau2[n],
                                                a_tr, a_tb)

\* A call has returned with a positive threshold and, at some node, three
\* distinct snapshots all above it.
C3_Witness ==
    /\ a_pc = "returned"
    /\ RGt(a_tauc, Zero)
    /\ a_tr > 0 /\ a_tb > 0
    /\ \E n \in AggNodes :
          /\ RGt(a_tau0[n], a_tauc) /\ RGt(a_tau1[n], a_tauc)
          /\ RGt(a_tau2[n], a_tauc)
          /\ a_tau0[n] # a_tau1[n]

\* C4: for tau0 < tauc < tau1 and tau2 < tauc, tr > 0 and tb >= 0, the result
\* is strictly greater than tauc and strictly less than tau1.
C4_PeakBetweenThresholdAndTau1 ==
    (a_pc = "returned" /\ a_tr > 0 /\ a_tb >= 0) =>
        \A n \in AggNodes :
            (RLt(a_tau0[n], a_tauc) /\ RLt(a_tauc, a_tau1[n])
                 /\ RLt(a_tau2[n], a_tauc))
                => /\ RLt(a_tauc, a_taueff[n])
                   /\ RLt(a_taueff[n], a_tau1[n])

\* A call has returned for a single peak above the threshold between two
\* different snapshots below it, with an interevent that lasts.
C4_Witness ==
    /\ a_pc = "returned"
    /\ a_tr > 0 /\ a_tb > 0
    /\ \E n \in AggNodes :
          /\ RLt(a_tau0[n], a_tauc) /\ RLt(a_tauc, a_tau1[n])
          /\ RLt(a_tau2[n], a_tauc)
          /\ a_tau0[n] # a_tau2[n]
          /\ a_taueff[n] # a_tauc

\* --------------------------------------- properties of the step operations
\* Positions in the log of the calls made on collaborator `name`, and those
\* calls in order.
Idx(name) == {k \in DOMAIN calls : calls[k].c = name}
CallsTo(name) == SelectSeq(calls, LAMBDA e : e.c = name)

\* The step operation that was called has returned normally.
Completed == pc = "idle" /\ step_no > 0 /\ raised = "none"

\* C5: in every step operation the pit detection, and the lake filling when
\* pits were found, come before the flow-direction update; the flow-direction
\* update comes before every groundwater advance; and every groundwater
\* advance is followed by a flow accumulation before the next advance.
C5_CallOrder ==
    /\ \A k \in Idx("fd") :
          /\ \E j \in Idx("find_pits") : j < k
          /\ \A j \in Idx("find_pits") \cup Idx("lmb") : j < k
    /\ \A k \in Idx("find_pits") :
          (calls[k].out > 0 /\ k + 1 \in DOMAIN calls) => calls[k + 1].c = "lmb"
    /\ \A k \in Idx("gw") :
          /\ \E j \in Idx("fd") : j < k
          /\ \A j \in Idx("fd") : j < k
    /\ \A j, k \in Idx("gw") :
          j < k => \E m \in Idx("fa") : j < m /\ m < k
    /\ Completed => \A k \in Idx("gw") : \E m \in Idx("fa") : k < m

\* A step operation has returned after filling lakes and advancing the
\* groundwater solver through two pairs.
C5_Witness ==
    /\ Completed
    /\ Idx("lmb") # {}
    /\ Cardinality(Idx("gw")) >= 4

\* C6: no step operation advances the groundwater solver with a zero duration.
C6_NeverZeroDuration ==
    \A k \in Idx("gw") : calls[k].arg > 0

\* C7: a step operation that has returned asked the precipitation generator
\* for its sequence exactly once.
C7_FreshForcingOncePerCall ==
    Completed => Cardinality(Idx("yield_storms")) = 1

\* The sequence the generator yielded in this step operation.
Generated == CallsTo("yield_storms")[1].out

\* The discharge the k-th flow accumulation of the loop reported at node n.
Discharge(k, n) == CallsTo("fa")[k].out[n]

\* 0.5*(q0_k + q1_k)*storm_dt_k at node n: q1_k from the accumulation at the
\* end of event k, q0_k from the one at the end of interevent k-1, 0 for k = 1.
EventVolume(k, n) ==
    LET q0k == IF k = 1 THEN 0 ELSE Discharge(2 * k - 2, n)
        q1k == Discharge(2 * k - 1, n)
    IN  Rat((q0k + q1k) * Generated[k].storm_dt, 2)

RECURSIVE SumVolume(_, _)
SumVolume(k, n) ==
    IF k = 0 THEN Zero ELSE RAdd(SumVolume(k - 1, n), EventVolume(k, n))

\* C8: when a step operation of HydrologyEventStreamPower has returned, q_eff
\* at every node is the sum over this step's events of
\* 0.5*(q0_k + q1_k)*storm_dt_k, divided by T_h, with q0 of the first event 0:
\* a value of this step's events alone.
C8_EffectiveDischarge ==
    (variant = EventStreamPower /\ Completed) =>
        \A n \in Nodes :
            q_eff[n] = RDiv(SumVolume(Len(Generated), n), Num(T_h))

\* A second step operation has returned after two events, the discharge at the
\* end of the first interevent and at the end of the second event differing.
C8_Witness ==
    /\ variant = EventStreamPower
    /\ Completed
    /\ step_no = 2
    /\ Len(Generated) = 2
    /\ \E n \in Nodes :
          /\ Discharge(2, n) > 0
          /\ Discharge(3, n) = 0
          /\ q_eff[n] # Zero

\* The snapshot tau0 of pair k of this step, for k > 1 or in the first step of
\* the object: the previous pair's tau2, the zero field before any step.
PairTau0(k) == IF k = 1 THEN ZeroN ELSE CallsTo("shear")[2 * k - 2].out

\* The effective shear stress of pair k from the snapshots the shear stress
\* function returned.
PairEffective(k) ==
    calc_storm_eff_shear_stress(PairTau0(k), CallsTo("shear")[2 * k - 1].out,
                                CallsTo("shear")[2 * k].out, Num(tauc),
                                Generated[k].storm_dt, Generated[k].interstorm_dt)

\* E_k*(storm_dt_k + interstorm_dt_k)/T_h at node n, E_k being what the erosion
\* rate function returned for pair k.
PairErosion(k, n) ==
    RDiv(RMul(CallsTo("erosion")[k].out[n],
              Num(Generated[k].storm_dt + Generated[k].interstorm_dt)),
         Num(T_h))

RECURSIVE SumErosion(_, _)
SumErosion(k, n) ==
    IF k = 0 THEN Zero ELSE RAdd(SumErosion(k - 1, n), PairErosion(k, n))

\* C9: when run_step of HydrologyIntegrateShearStress has returned, dzdt is the
\* sum over this step's pairs of E_i*(storm_dt_i + interstorm_dt_i)/T_h, E_i
\* being the erosion rate asked for the pair's effective shear stress
\* calc_storm_eff_shear_stress(tau0_i, tau1_i, tau2_i, tauc, storm_dt_i,
\* interstorm_dt_i); with the durations covering T_h an erosion rate that is
\* the same constant for every pair gives dzdt equal to that constant.
C9_IntegratedErosion ==
    (variant = IntegrateShearStress /\ Completed) =>
        /\ Len(CallsTo("erosion")) = Len(Generated)
        /\ \A n \in Nodes : dzdt[n] = SumErosion(Len(Generated), n)
        /\ \A k \in 1..Len(Generated) :
              (k > 1 \/ step_no = 1) =>
                  CallsTo("erosion")[k].arg = PairEffective(k)
        /\ erosion_fn = "constant" => dzdt = [n \in Nodes |-> Num(-1)]

\* A second run_step has returned after two pairs of different lengths whose
\* erosion rates differ.
C9_Witness ==
    /\ variant = IntegrateShearStress
    /\ Completed
    /\ step_no = 2
    /\ Len(Generated) = 2
    /\ Generated[1].storm_dt + Generated[1].interstorm_dt
          # Generated[2].storm_dt + Generated[2].interstorm_dt
    /\ \E n \in Nodes :
          /\ CallsTo("erosion")[1].out[n] # CallsTo("erosion")[2].out[n]
          /\ CallsTo("erosion")[2].out[n] # Zero

\* The erosion rate the k-th call of the erosion rate function returned at n.
Rate(k, n) == CallsTo("erosion")[k].out[n]

\* 0.5*(dzdt0_k + dzdt1_k)*storm_dt_k at node n: dzdt1_k the rate at the end of
\* event k, dzdt0_k the rate at the end of interevent k-1, zero for k = 1.
EventErosion(k, n) ==
    LET d0 == IF k = 1 THEN Zero ELSE Rate(2 * k - 2, n)
        d1 == Rate(2 * k - 1, n)
    IN  RMul(RMul(Half, RAdd(d0, d1)), Num(forcing[k].storm_dt))

RECURSIVE SumEventErosion(_, _)
SumEventErosion(k, n) ==
    IF k = 0 THEN Zero
    ELSE RAdd(SumEventErosion(k - 1, n), EventErosion(k, n))

\* C10: when a step operation of HydrologyEventShearStress has returned, dzdt
\* is the sum over the events of 0.5*(dzdt0_k + dzdt1_k)*storm_dt_k, divided by
\* T_h: no threshold, no interevent duration and not the rate at the end of
\* the last interevent enter it.
C10_EventOnlyErosion ==
    (variant = EventShearStress /\ Completed) =>
        /\ Len(CallsTo("erosion")) = 2 * Len(forcing)
        /\ \A n \in Nodes :
              dzdt[n] = RDiv(SumEventErosion(Len(forcing), n), Num(T_h))

\* A step operation has returned after two events with interevents that last,
\* the rate at the end of the last interevent not zero.
C10_Witness ==
    /\ variant = EventShearStress
    /\ Completed
    /\ Len(forcing) = 2
    /\ forcing[1].interstorm_dt > 0
    /\ \E n \in Nodes :
          /\ Rate(4, n) # Zero
          /\ Rate(2, n) # Rate(3, n)
          /\ dzdt[n] # Zero

\* C11: a step operation that fails in the loop commits no partial
\* accumulator: the effective output (dzdt of the shear stress classes, q_eff
\* and q_an of the discharge classes) is written only once the loop is over
\* and no call that may fail is left, so that at any failure in the loop the
\* output is what it was when the step began.
C11_NoPartialCommit ==
    [][((variant \in ShearVariants /\ dzdt' # dzdt)
          \/ (variant \in StreamVariants /\ (q_eff' # q_eff \/ q_an' # q_an)))
       => (pc' = "final" \/ (pc' = "idle" /\ raised' = "none"))]_vars

\* C12: an object constructed with a routing_method other than "D8" or
\* "Steepest" gets no flow accumulator, lake mapper or depression finder and
\* no named field on the grid: the constructor goes no further than the check
\* of the routing method, where it raises ValueError.
C12_InvalidRoutingBuildsNothing ==
    routing_method \notin {"D8", "Steepest"} =>
        /\ c_pc \in {"new", "director", "ValueError"}
        /\ components = {}
        /\ fields = {}

\* The constructor of the class with the most fields has raised ValueError.
C12_Witness ==
    /\ c_pc = "ValueError"
    /\ routing_method \notin {"D8", "Steepest"}
    /\ variant = EventVadoseStreamPower

\* The transition is a call on collaborator `name`.
Calls(name) ==
    /\ Len(calls') = Len(calls) + 1
    /\ calls'[Len(calls')].c = name

\* C13: in a step no grid field has two writers: the discharge field is
\* written only by the flow router, the water table only by the groundwater
\* solver; the core writes its own derived fields and no other.
C13_SingleWriter ==
    [][/\ q' # q => Calls("fa")
       /\ wt_depth' # wt_depth => Calls("gw")]_vars

\* The flow accumulations that recompute the flow directions first.
DirectingAccumulations == {k \in Idx("fa") : calls[k].arg = TRUE}

\* C14: in a step of any class that has returned, pit detection ran exactly
\* once, the lake filling exactly once if pits were found and not at all
\* otherwise, the flow directions were recomputed exactly once, and every flow
\* accumulation of an event-driven class held the flow directions fixed.
C14_OncePerStep ==
    Completed =>
        /\ Cardinality(Idx("find_pits")) = 1
        /\ \A k \in Idx("find_pits") :
              Cardinality(Idx("lmb")) = IF calls[k].out > 0 THEN 1 ELSE 0
        /\ Cardinality(Idx("fd")) + Cardinality(DirectingAccumulations) = 1
        /\ variant \in Variants => DirectingAccumulations = {}

\* A step operation of the threshold class has returned after filling lakes,
\* accumulating the flow once before the loop and four times in it.
C14_Witness ==
    /\ Completed
    /\ variant = EventThresholdStreamPower
    /\ Idx("lmb") # {}
    /\ Cardinality(Idx("fa")) = 5

\* C15: in the event-driven classes but the vadose one, when the solver has
\* been advanced through an event its recharge is that event's intensity, when
\* it has been advanced through an interevent its recharge is 0, and 0 is the
\* recharge left when the step operation returns.
C15_RechargeFollowsForcing ==
    (variant \in Variants \ {EventVadoseStreamPower}) =>
        /\ pc = "ev_fa" =>
              recharge = [n \in Nodes |-> <<Pairs[i + 1].intensity, 1>>]
        /\ pc = "iv_fa" => recharge = [n \in Nodes |-> <<0, 1>>]
        /\ Completed => recharge = [n \in Nodes |-> <<0, 1>>]

\* The solver has been advanced through a second event whose intensity is not
\* that of the first, in a step operation that reads the stored sequences.
C15_Witness ==
    /\ variant = EventShearStress
    /\ op = "run_step_record_state"
    /\ pc = "ev_fa"
    /\ i = 1
    /\ Pairs[1].intensity # Pairs[2].intensity

\* The largest of a set of sub-step counts, 0 for none.
Largest(counts) ==
    IF counts = {} THEN 0 ELSE CHOOSE m \in counts : \A c \in counts : c <= m

\* The counts the solver reported after this step's event advances (the odd
\* advances) and interevent advances (the even ones).
EventCounts == {CallsTo("gw")[k].out : k \in {j \in 1..Len(CallsTo("gw")) : j % 2 = 1}}
IntereventCounts == {CallsTo("gw")[k].out : k \in {j \in 1..Len(CallsTo("gw")) : j % 2 = 0}}

\* C16: when a step operation of an event-driven class has returned,
\* max_substeps_storm is the largest sub-step count the solver reported after
\* this step's event advances and max_substeps_interstorm the largest after
\* its interevent advances, whatever an earlier step left.
C16_RunningMaximum ==
    (variant \in Variants /\ Completed) =>
        /\ max_substeps_storm = Largest(EventCounts)
        /\ max_substeps_interstorm = Largest(IntereventCounts)

DischargeVariants == StreamVariants \cup {SteadyStreamPower}

\* The discharge the area-normalized field is made from: the grid's discharge
\* in the steady class, the effective discharge in the event-driven ones.
Normalized(n) == IF variant = SteadyStreamPower THEN Num(q[n]) ELSE q_eff[n]

\* C17: when a step operation of a discharge class has returned, the
\* area-normalized discharge of every node of positive area is the discharge
\* divided by the square root of the area, and that of every node of area 0
\* is exactly 0, whatever the discharge there.
C17_AreaNormalized ==
    (variant \in DischargeVariants /\ Completed) =>
        \A n \in Nodes :
            /\ area[n] > 0 =>
                  \E root \in 1..area[n] :
                      /\ root * root = area[n]
                      /\ q_an[n] = RDiv(Normalized(n), Num(root))
            /\ area[n] = 0 => q_an[n] = Zero

C17_Witness ==
    /\ variant = EventStreamPower
    /\ op = "run_step_record_state"
    /\ Completed
    /\ \E n \in Nodes : area[n] = 0 /\ q_eff[n] # Zero /\ q_an[n] = Zero

\* The positions of a step operation up to the computation of Q0.
BeforeQ0 == {"idle", "gen", "pits", "lake", "fd", "Q0"}

\* E0 * sqrt(area) / (Ksp * S) at a node of positive slope.
Threshold(n) ==
    LET root == CHOOSE x \in 0..area[n] : x * x = area[n]
    IN  Rat(E0 * root, Ksp * S[n])

\* C18: in HydrologyEventThresholdStreamPower, Q0 is computed when the flow
\* directions have been updated and the groundwater solver has not yet been
\* advanced in this step; from then until the step operation has returned,
\* through every pass of the loop, Q0 is E0 * sqrt(area) / (Ksp * S) at every
\* node of slope S > 0 and 0 at every other node; before its first
\* computation it is the zero the field was created with.
C18_CriticalDischarge ==
    variant = EventThresholdStreamPower =>
        /\ pc = "Q0" => Idx("fd") # {} /\ Idx("gw") = {}
        /\ (pc \notin BeforeQ0 \/ Completed) =>
              \A n \in Nodes :
                  Q0[n] = IF S[n] > 0 THEN Threshold(n) ELSE Zero
        /\ (step_no = 1 /\ pc \in BeforeQ0 \ {"idle"}) => Q0 = ZeroN

C18_Witness ==
    /\ variant = EventThresholdStreamPower
    /\ pc = "accum"
    /\ i = 1
    /\ E0 = 1
    /\ \E n \in Nodes : S[n] = 4 /\ area[n] = 4 /\ Q0[n] = <<1, 2>>

\* The raw discharge the flow accumulator returned at node n, k calls before
\* its latest call of this step.
RawDischarge(k, n) == CallsTo("fa")[Len(CallsTo("fa")) - k].out[n]

\* max(raw - Q0, 0) at node n.
Excess(raw, n) ==
    IF raw * Q0[n][2] > Q0[n][1] THEN RSub(Num(raw), Q0[n]) ELSE Zero

NonNegative(x) == \A n \in Nodes : x[n][1] >= 0 /\ x[n][2] > 0

\* C19: in HydrologyEventThresholdStreamPower, the snapshot taken at the end
\* of an event and the one taken at the end of an interevent are
\* max(q - Q0, 0) of the discharge the flow accumulator had just returned;
\* the snapshots, the previous snapshot and the volume accumulated from them
\* are never negative, and neither is q_eff once the step has returned.
C19_ExcessSnapshots ==
    variant = EventThresholdStreamPower =>
        /\ pc \in {"ev_rec", "iv_gw", "iv_fa"} =>
              \A n \in Nodes : s1[n] = Excess(RawDischarge(0, n), n)
        /\ pc \in {"iv_rec", "accum"} =>
              \A n \in Nodes : /\ s2[n] = Excess(RawDischarge(0, n), n)
                               /\ s1[n] = Excess(RawDischarge(1, n), n)
        /\ NonNegative(s0) /\ NonNegative(s1) /\ NonNegative(s2)
        /\ NonNegative(q_total_vol)
        /\ Completed => NonNegative(q_eff)

C19_Witness ==
    /\ variant = EventThresholdStreamPower
    /\ pc = "accum"
    /\ \E n \in Nodes :
          /\ Q0[n] = <<1, 2>>
          /\ RawDischarge(1, n) = 1 /\ s1[n] = <<1, 2>>
          /\ RawDischarge(0, n) = 0 /\ s2[n] = Zero

\* What HydrologyEventStreamPower adds to its volume for event k at node n,
\* from the raw discharges this step's loop got: in the threshold class the
\* loop's accumulations follow the one that updates the area.
RawEventVolume(k, n) ==
    LET q0k == IF k = 1 THEN 0 ELSE Discharge(2 * k - 1, n)
        q1k == Discharge(2 * k, n)
    IN  Rat((q0k + q1k) * Generated[k].storm_dt, 2)

RECURSIVE SumRawVolume(_, _)
SumRawVolume(k, n) ==
    IF k = 0 THEN Zero ELSE RAdd(SumRawVolume(k - 1, n), RawEventVolume(k, n))

\* C20: in HydrologyEventThresholdStreamPower with E0 = 0, Q0 once computed
\* is 0 at every node whatever the slope and the area, each snapshot is the
\* raw discharge the flow accumulator returned, and q_eff after the step is
\* the q_eff of HydrologyEventStreamPower for the same storms and the same
\* raw discharges.
C20_ZeroThreshold ==
    (variant = EventThresholdStreamPower /\ E0 = 0) =>
        /\ (pc \notin BeforeQ0 \/ Completed) => \A n \in Nodes : Q0[n] = Zero
        /\ pc \in {"ev_rec", "iv_gw", "iv_fa"} =>
              \A n \in Nodes : s1[n] = Num(RawDischarge(0, n))
        /\ pc \in {"iv_rec", "accum"} =>
              \A n \in Nodes : /\ s2[n] = Num(RawDischarge(0, n))
                               /\ s1[n] = Num(RawDischarge(1, n))
        /\ Completed =>
              \A n \in Nodes :
                  q_eff[n] = RDiv(SumRawVolume(Len(Generated), n), Num(T_h))

C20_Witness ==
    /\ variant = EventThresholdStreamPower
    /\ E0 = 0
    /\ Completed
    /\ Len(Generated) = 2
    /\ \E n \in Nodes : S[n] > 0 /\ area[n] > 0 /\ q_eff[n] # Zero

\* The 0-based index of the right-closed bucket of the depth table that holds
\* depth d: 0 up to the first entry, k where depths[k-1] < d <= depths[k], the
\* last index beyond the last entry.
Bucket(d) ==
    LET last == Len(svm_depths) - 1
    IN  IF d > svm_depths[last + 1] THEN last
        ELSE CHOOSE k \in 0..last :
                /\ d <= svm_depths[k + 1]
                /\ k > 0 => svm_depths[k] < d

\* C21: in HydrologyEventVadoseStreamPower, when the groundwater solver is
\* about to be advanced for an event, the recharge rate of every core node is
\* recharge_at_depth[k] / storm_dt with k the right-closed bucket of the node's
\* depth to the water table, depths beyond the table clamped to the last
\* index; the solver is driven with that field; the recharge rate of a
\* non-core node is never written.
C21_RechargeFromProfile ==
    variant = EventVadoseStreamPower =>
        /\ pc = "ev_gw" =>
              \A n \in cores :
                  /\ Bucket(wt_depth[n]) \in 0..(Len(svm_depths) - 1)
                  /\ r[n] = Rat(recharge_at_depth[Bucket(wt_depth[n]) + 1],
                                storm_dt)
        /\ pc = "ev_fa" => recharge = r
        /\ \A n \in Nodes \ cores : r[n] = Zero

C21_Witness ==
    /\ variant = EventVadoseStreamPower
    /\ pc = "ev_gw"
    /\ i = 1
    /\ \E n \in cores :
          /\ wt_depth[n] = 2
          /\ recharge_at_depth[1] # recharge_at_depth[2]
          /\ r[n] = Zero

\* C22: a second run_step of a steady class leaves the output fields as the
\* first run_step left them: no statement of the second call changes the
\* shear stress, the erosion rate or the area-normalized discharge.
C22_SecondStepChangesNothing ==
    [][(variant \in SteadyVariants /\ step_no = 2)
          => (tau' = tau /\ dzdt' = dzdt /\ q_an' = q_an)]_vars

\* The recorded time array of a run_step_record_state over its n events:
\* 2n+1 points from 0, each event and interevent adding its duration.
TimeSeriesComplete ==
    LET n == Len(forcing)
    IN  /\ Len(time) = 2 * n + 1
        /\ time[1] = 0
        /\ \A k \in 1..n :
              /\ time[2 * k] = time[2 * k - 1] + forcing[k].storm_dt
              /\ time[2 * k + 1] = time[2 * k] + forcing[k].interstorm_dt
        /\ time[2 * n + 1] = SumDurations(forcing)

\* C23: when a run_step_record_state has ended, it has recorded the 2n+1 time
\* points of its n events, from 0 and each adding the duration of its event or
\* interevent, the last being the sum of all durations; a run_step on a new
\* object leaves no time array.
C23_TimeSeriesRecorded ==
    /\ (Records /\ pc = "idle" /\ step_no > 0) =>
          (raised = "none" /\ TimeSeriesComplete)
    /\ (op = "run_step" /\ step_no = 1) => time = <<>>

\* C24: a step of a steady class never changes the solver's recharge and asks
\* the precipitation generator for nothing; when it has returned, the solver
\* was advanced exactly once, by T_h, before the one pit detection, the lake
\* filling ran after it exactly when pits were found, the one flow
\* accumulation came last of these, and the recorded number of sub-steps is
\* the count that advance reported.
C24_SteadyStep ==
    variant \in SteadyVariants =>
        /\ recharge = [n \in Nodes |-> <<1, 1>>]
        /\ Idx("yield_storms") = {} /\ Idx("fd") = {}
        /\ Completed =>
              /\ Idx("gw") = {1}
              /\ calls[1].arg = T_h
              /\ calls[1].out = number_of_substeps
              /\ Idx("find_pits") = {2}
              /\ Idx("lmb") = IF calls[2].out > 0 THEN {3} ELSE {}
              /\ Idx("fa") = {IF calls[2].out > 0 THEN 4 ELSE 3}

C24_Witness ==
    /\ variant = SteadyStreamPower
    /\ Completed
    /\ step_no = 2
    /\ Idx("lmb") = {3}
    /\ number_of_substeps = MaxSubsteps

\* The largest of the threshold and the three snapshots at aggregator node n.
Ceiling(n) == RMax(RMax(a_tauc, a_tau0[n]), RMax(a_tau1[n], a_tau2[n]))

\* C25: for tr >= 0, tb >= 0 and tr + tb > 0, the value
\* calc_storm_eff_shear_stress returns at a node is at least tauc and at most
\* the largest of tauc, tau0, tau1 and tau2; it is tauc itself when no
\* snapshot exceeds tauc; and the integrals and the result are quotients with
\* non-zero denominators.
C25_EffectiveStressBounds ==
    (a_pc = "returned" /\ a_tr >= 0 /\ a_tb >= 0 /\ a_tr + a_tb > 0) =>
        \A n \in AggNodes :
            /\ RLe(a_tauc, a_taueff[n])
            /\ RLe(a_taueff[n], Ceiling(n))
            /\ (RLe(a_tau0[n], a_tauc) /\ RLe(a_tau1[n], a_tauc)
                  /\ RLe(a_tau2[n], a_tauc)) => a_taueff[n] = a_tauc
            /\ a_tauint1[n][2] > 0 /\ a_tauint2[n][2] > 0 /\ a_taueff[n][2] > 0

C25_Witness ==
    /\ a_pc = "returned"
    /\ a_tauc = Num(MaxTauc)
    /\ \E n \in AggNodes :
          /\ a_tau0[n] = Zero /\ a_tau1[n] = Zero /\ a_tau2[n] = Zero
          /\ a_taueff[n] = a_tauc

\* The positions of the loop body at which the pair's start snapshot is set.
StartSnapshotSet ==
    {"ev_fa", "ev_fn", "ev_rec", "iv_svm", "iv_gw", "iv_fa", "iv_fn",
     "iv_rec", "accum"}

\* C26: in HydrologyIntegrateShearStress.run_step, the start snapshot of a
\* pair after the first is what the shear stress function returned at the end
\* of the preceding interevent; that of the first pair is the shear stress
\* field as the step found it, zero in the first step, and the field a step
\* leaves is the effective shear stress of its last pair. In the other
\* event-driven classes the first pair starts from zero.
C26_StartSnapshot ==
    /\ (variant = IntegrateShearStress /\ pc \in StartSnapshotSet) =>
          /\ i = 0 => s0 = tau
          /\ (i = 0 /\ step_no = 1) => s0 = ZeroN
          /\ i > 0 => s0 = CallsTo("shear")[2 * i].out
    /\ (variant = IntegrateShearStress /\ Completed) =>
          tau = CallsTo("erosion")[Len(CallsTo("erosion"))].arg
    /\ (variant \in Variants \ {IntegrateShearStress}
          /\ pc \in StartSnapshotSet /\ i = 0) => s0 = ZeroN

C26_Witness ==
    /\ variant = IntegrateShearStress
    /\ step_no = 2
    /\ pc = "accum"
    /\ i = 0
    /\ s0 # ZeroN
    /\ s0 # s2

\* The pairs this step operation iterated: those the generator yielded in it,
\* or the stored ones when it asked the generator for nothing.
StepForcing == IF Idx("yield_storms") # {} THEN Generated ELSE forcing

\* The total duration the groundwater solver was advanced by in this step.
RECURSIVE SumAdvanced(_)
SumAdvanced(k) ==
    IF k = 0 THEN 0 ELSE SumAdvanced(k - 1) + CallsTo("gw")[k].arg

\* EPS - interstorm_dt summed over the pairs whose interevent is shorter than
\* EPS.
RECURSIVE SumShortfall(_)
SumShortfall(seq) ==
    IF seq = <<>> THEN 0
    ELSE (IF seq[1].interstorm_dt < EPS THEN EPS - seq[1].interstorm_dt ELSE 0)
         + SumShortfall(Tail(seq))

\* C27: when a step operation of an event-driven class has returned, its
\* pairs summing to T_h, the groundwater solver was advanced by T_h in total
\* if every interevent lasted at least 1e-15, and otherwise by T_h plus
\* 1e-15 - interstorm_dt for every interevent shorter than 1e-15.
C27_AdvancedDuration ==
    (variant \in Variants /\ Completed /\ SumDurations(StepForcing) = T_h) =>
        SumAdvanced(Len(CallsTo("gw"))) = T_h + SumShortfall(StepForcing)

\* The statements of one iteration of run_model, in order, for a pit count.
IterationOrder(np) ==
    <<"gw", "uplift", "find_pits">>
    \o (IF np > 0 THEN <<"lmb">> ELSE <<>>)
    \o <<"fa", "ld", "shear", "erosion", "clamp">>

\* C28: SteadyRechargeShearStress.run_model runs N = T // (MSF * dt_h)
\* iterations; at the end of each the statements that ran are the groundwater
\* advance, uplift and regolith production, pit detection with the lake
\* filling when pits were found, flow accumulation, diffusion, shear stress
\* erosion and the bedrock clamp, in that order, and the elevation of every
\* node is at least its aquifer base; when the run is over, output was
\* written at the iterations i with i % output_interval = 0 and at
\* i = N - 1 if save_output is set, and at none otherwise.
C28_RunModel ==
    m_pc # "unused" =>
        /\ m_N * (m_MSF * m_dt_h) <= m_T
        /\ m_T < (m_N + 1) * (m_MSF * m_dt_h)
        /\ m_i <= m_N
        /\ m_pc = "done" => m_i = m_N
        /\ m_pc = "output" =>
              /\ m_log = IterationOrder(m_pits)
              /\ \A n \in Nodes : m_elev[n] >= m_base[n]
        /\ (m_pc = "loop" /\ m_i > 0) =>
              \A n \in Nodes : m_elev[n] >= m_base[n]
        /\ m_pc = "done" =>
              m_written =
                 IF m_save
                 THEN {j \in 0..(m_N - 1) :
                          j % m_interval = 0 \/ j = m_N - 1}
                 ELSE {}

C28_Witness ==
    /\ m_pc = "done"
    /\ m_N > 2
    /\ m_save
    /\ m_interval = 2
    /\ (m_N - 1) % m_interval # 0
    /\ m_N - 1 \in m_written
    /\ 1 \notin m_written
    /\ \E n \in Nodes : m_elev[n] = m_base[n] /\ m_base[n] > 0
====
